---- MODULE Spec2Model ----
(***************************************************************************)
(* narabetask2: the task list of the scheduling board and the placement     *)
(* engine around it (useTasks hook, TaskService, ConflictService,           *)
(* timeUtils).                                                              *)
(*                                                                          *)
(* Representation of JavaScript values                                      *)
(*   string   a sequence of chunks; every digit and the colon is a chunk    *)
(*            of its own ("09:30" is <<"0","9",":","3","0">>), a literal    *)
(*            fragment of a template is one chunk.  The Japanese literals   *)
(*            of the source are written in ASCII and listed where used.     *)
(*   null     the record  null  below (a position that is no position).     *)
(*   Task     [id, name, duration, position]                                *)
(***************************************************************************)
EXTENDS Integers, Sequences, FiniteSets, TLC

VARIABLES
    tasks,           \* useState<Task[]>([]): the list of the latest render,
                     \* which the handlers of that render read
    selectedTaskId,  \* useState<string | null>(null), of the latest render
    now,             \* the value Date.now() returns
    alerts,          \* the alert() calls of the most recent handler, in order
    called,          \* the service functions the most recent handler evaluated
    pendingTasks,           \* the value the next render gives tasks
    pendingSelectedTaskId,  \* the value the next render gives selectedTaskId
    timeSlotTaskMap,        \* the Map TimelineUtils.createTimeSlotTaskMap returned
    callArgs,               \* the arguments a timeUtils function is called with
    returned                \* the value the timeUtils function returned

vars == <<tasks, selectedTaskId, now, alerts, called,
          pendingTasks, pendingSelectedTaskId, timeSlotTaskMap, callArgs, returned>>

----------------------------------------------------------------------------
(* Bounds of the model *)

MaxTasks == 2        \* createTask is offered while the list is shorter
MaxClock == 2        \* Date.now() ranges over 1..MaxClock
NumRows == 2         \* rows offered to a drop: 0..NumRows-1
NumSlots == 5        \* start times offered to a drop: NumSlots grid labels
MaxDuration == 3     \* updateTask offers durations up to MaxDuration

(* Program constants *)

TIME_SLOT_INCREMENT_MINUTES == 15
MINUTES_PER_HOUR == 60
TIME_STRING_PADDING_LENGTH == 2
DISPLAY_INDEX_OFFSET == 1
CONFLICT_THRESHOLD == 1
DEFAULT_TASK_DURATION_UNITS == 2
MIN_TASK_DURATION_UNITS == 1
SINGLE_TASK_COUNT == 1

----------------------------------------------------------------------------
(* Strings *)

Digits == <<"0", "1", "2", "3", "4", "5", "6", "7", "8", "9">>

\* Number.prototype.toString for an integer n >= 0
RECURSIVE toString(_)
toString(n) ==
    IF n < 10 THEN <<Digits[n + 1]>>
    ELSE toString(n \div 10) \o <<Digits[(n % 10) + 1]>>

\* value of one digit chunk
DigitValue(c) ==
    CASE c = "0" -> 0 [] c = "1" -> 1 [] c = "2" -> 2 [] c = "3" -> 3 [] c = "4" -> 4
      [] c = "5" -> 5 [] c = "6" -> 6 [] c = "7" -> 7 [] c = "8" -> 8 [] c = "9" -> 9

\* Number(s) for a string of decimal digits
RECURSIVE Number(_)
Number(s) ==
    IF s = <<>> THEN 0
    ELSE Number(SubSeq(s, 1, Len(s) - 1)) * 10 + DigitValue(s[Len(s)])

\* String.prototype.padStart(targetLength, padString) for a one-chunk pad
RECURSIVE padStart(_, _, _)
padStart(s, targetLength, padString) ==
    IF Len(s) >= targetLength THEN s
    ELSE padStart(<<padString>> \o s, targetLength, padString)

\* String.prototype.split(sep): the pieces of s between occurrences of sep
RECURSIVE split(_, _)
split(s, sep) ==
    IF \A i \in 1..Len(s) : s[i] # sep THEN <<s>>
    ELSE LET k == CHOOSE i \in 1..Len(s) :
                     s[i] = sep /\ \A j \in 1..(i - 1) : s[j] # sep
         IN  <<SubSeq(s, 1, k - 1)>> \o split(SubSeq(s, k + 1, Len(s)), sep)

----------------------------------------------------------------------------
(* timeUtils *)

timeToMinutes(timeStr) ==
    LET parts == split(timeStr, ":")
        hours == Number(parts[1])
        minutes == Number(parts[2])
    IN  hours * MINUTES_PER_HOUR + minutes

\* mutant: no padding
minutesToTime_unpadded(minutes) ==
    LET hours == minutes \div MINUTES_PER_HOUR
        mins == minutes % MINUTES_PER_HOUR
    IN  toString(hours) \o <<":">> \o toString(mins)

minutesToTime(minutes) ==
    LET hours == minutes \div MINUTES_PER_HOUR
        mins == minutes % MINUTES_PER_HOUR
    IN  padStart(toString(hours), TIME_STRING_PADDING_LENGTH, "0")
            \o <<":">>
            \o padStart(toString(mins), TIME_STRING_PADDING_LENGTH, "0")

\* mutant: the end label is included
generateTimeSlots_closedEnd(startTime, endTime) ==
    LET startMinutes == timeToMinutes(startTime)
        endMinutes == timeToMinutes(endTime)
        RECURSIVE forLoop(_, _)
        forLoop(slots, minutes) ==
            IF minutes <= endMinutes
                THEN forLoop(Append(slots, minutesToTime(minutes)),
                             minutes + TIME_SLOT_INCREMENT_MINUTES)
                ELSE slots
    IN  forLoop(<<>>, startMinutes)

generateTimeSlots(startTime, endTime) ==
    LET startMinutes == timeToMinutes(startTime)
        endMinutes == timeToMinutes(endTime)
        \* for (let minutes = startMinutes; minutes < endMinutes; minutes += 15)
        RECURSIVE forLoop(_, _)
        forLoop(slots, minutes) ==
            IF minutes < endMinutes
                THEN forLoop(Append(slots, minutesToTime(minutes)),
                             minutes + TIME_SLOT_INCREMENT_MINUTES)
                ELSE slots
    IN  forLoop(<<>>, startMinutes)

\* "h" is the literal 時間, "m" the literal 分
formatDuration(duration) ==
    LET totalMinutes == duration * TIME_SLOT_INCREMENT_MINUTES
        hours == totalMinutes \div MINUTES_PER_HOUR
        minutes == totalMinutes % MINUTES_PER_HOUR
    IN  IF hours > 0 /\ minutes > 0
            THEN toString(hours) \o <<"h">> \o toString(minutes) \o <<"m">>
        ELSE IF hours > 0
            THEN toString(hours) \o <<"h">>
        ELSE toString(minutes) \o <<"m">>

\* mutant: the duration is forgotten, only the start is tested
isWithinWorkingHours_startOnly(startTime, duration, workingStart, workingEnd) ==
    LET startMinutes == timeToMinutes(startTime)
        workStartMinutes == timeToMinutes(workingStart)
        workEndMinutes == timeToMinutes(workingEnd)
    IN  startMinutes >= workStartMinutes /\ startMinutes < workEndMinutes

\* mutant: the lower bound is forgotten
isWithinWorkingHours_noStartBound(startTime, duration, workingStart, workingEnd) ==
    LET startMinutes == timeToMinutes(startTime)
        endMinutes == startMinutes + duration * TIME_SLOT_INCREMENT_MINUTES
        workEndMinutes == timeToMinutes(workingEnd)
    IN  endMinutes <= workEndMinutes

\* mutant: a task may not end at the end of the working hours
isWithinWorkingHours_strictEnd(startTime, duration, workingStart, workingEnd) ==
    LET startMinutes == timeToMinutes(startTime)
        endMinutes == startMinutes + duration * TIME_SLOT_INCREMENT_MINUTES
        workStartMinutes == timeToMinutes(workingStart)
        workEndMinutes == timeToMinutes(workingEnd)
    IN  startMinutes >= workStartMinutes /\ endMinutes < workEndMinutes

isWithinWorkingHours(startTime, duration, workingStart, workingEnd) ==
    LET startMinutes == timeToMinutes(startTime)
        endMinutes == startMinutes + duration * TIME_SLOT_INCREMENT_MINUTES
        workStartMinutes == timeToMinutes(workingStart)
        workEndMinutes == timeToMinutes(workingEnd)
    IN  startMinutes >= workStartMinutes /\ endMinutes <= workEndMinutes

----------------------------------------------------------------------------
(* JavaScript null: the empty position, the task that was not found, the    *)
(* empty selection.                                                         *)
null == [null |-> TRUE]

(* Array.prototype.map is written  [i \in 1..Len(list) |-> f(list[i])],        *)
(* Array.prototype.filter is SelectSeq.                                      *)

\* Array.prototype.join(sep) of an array of strings
RECURSIVE join(_, _)
join(strs, sep) ==
    IF strs = <<>> THEN <<>>
    ELSE IF Len(strs) = 1 THEN strs[1]
    ELSE strs[1] \o <<sep>> \o join(Tail(strs), sep)

----------------------------------------------------------------------------
(* TaskService *)

\* mutant: the name counts the tasks in the pool only
createNewTask_countsPoolOnly(existingTasks, dateNow) ==
    LET inPool(task) == task.position = null
    IN  [ id |-> <<"task-">> \o toString(dateNow),
          name |-> <<"Task ">> \o toString(Len(SelectSeq(existingTasks, inPool)) + 1),
          duration |-> DEFAULT_TASK_DURATION_UNITS,
          position |-> null ]

\* id: `task-${Date.now()}`, name: `タスク ${n}` (the literal is "Task " here)
createNewTask(existingTasks, dateNow) ==
    [ id |-> <<"task-">> \o toString(dateNow),
      name |-> <<"Task ">> \o toString(Len(existingTasks) + 1),
      duration |-> DEFAULT_TASK_DURATION_UNITS,
      position |-> null ]

\* mutant: a task whose id is not in the list is added to it
updateTaskInList_upsert(list, updatedTask) ==
    LET f(task) == IF task.id = updatedTask.id THEN updatedTask ELSE task
    IN  IF \E i \in 1..Len(list) : list[i].id = updatedTask.id
            THEN [i \in 1..Len(list) |-> f(list[i])]
            ELSE list \o <<updatedTask>>

updateTaskInList(list, updatedTask) ==
    LET f(task) == IF task.id = updatedTask.id THEN updatedTask ELSE task
    IN  [i \in 1..Len(list) |-> f(list[i])]

deleteTaskFromList(list, taskId) ==
    LET p(task) == task.id # taskId
    IN  SelectSeq(list, p)

\* mutant: a task that already has a position keeps it
placeTaskOnTimeline_onlyFromPool(list, taskId, row, startTime) ==
    LET f(task) ==
            IF task.id = taskId /\ task.position = null
                THEN [task EXCEPT !.position =
                                      [row |-> row, startTime |-> startTime]]
                ELSE task
    IN  [i \in 1..Len(list) |-> f(list[i])]

\* mutant: the task is taken out of the list and put back at its end
placeTaskOnTimeline_movedToEnd(list, taskId, row, startTime) ==
    LET other(task) == task.id # taskId
        same(task) == task.id = taskId
        f(task) == [task EXCEPT !.position = [row |-> row, startTime |-> startTime]]
        moved == SelectSeq(list, same)
    IN  SelectSeq(list, other) \o [i \in 1..Len(moved) |-> f(moved[i])]

placeTaskOnTimeline(list, taskId, row, startTime) ==
    LET f(task) ==
            IF task.id = taskId
                THEN [task EXCEPT !.position =
                                      [row |-> row, startTime |-> startTime]]
                ELSE task
    IN  [i \in 1..Len(list) |-> f(list[i])]

\* mutant: the id is not compared, every task goes back to the pool
returnTaskToPool_everyTask(list, taskId) ==
    LET f(task) == [task EXCEPT !.position = null]
    IN  [i \in 1..Len(list) |-> f(list[i])]

returnTaskToPool(list, taskId) ==
    LET f(task) ==
            IF task.id = taskId THEN [task EXCEPT !.position = null] ELSE task
    IN  [i \in 1..Len(list) |-> f(list[i])]

(* The overlap labels of the source, in ASCII:                              *)
(*   同一行重複 "same-row"      異なる行重複 (行N) "other-row (row N)"      *)
(*   完全重複 "complete"   包含重複 "containing"   内包重複 "contained"      *)
(*   前半重複 "front"      後半重複 "back"         部分重複 "partial"        *)

\* mutant: existingStart written for existingEnd
hasTimeOverlap_wrongEnd(startMinutes, endMinutes, existingStart, existingEnd) ==
    ~(endMinutes <= existingStart \/ startMinutes >= existingStart)

\* mutant: only a candidate that starts inside the existing task overlaps it
hasTimeOverlap_startInside(startMinutes, endMinutes, existingStart, existingEnd) ==
    startMinutes >= existingStart /\ startMinutes < existingEnd

\* mutant: the start of the existing task is not looked at
hasTimeOverlap_noExistingStart(startMinutes, endMinutes, existingStart, existingEnd) ==
    ~(startMinutes >= existingEnd)

\* mutant: closed intervals, touching at an endpoint counts
hasTimeOverlap_closed(startMinutes, endMinutes, existingStart, existingEnd) ==
    ~(endMinutes < existingStart \/ startMinutes > existingEnd)

\* const hasTimeOverlap = !(endMinutes <= existingStart || startMinutes >= existingEnd)
hasTimeOverlap(startMinutes, endMinutes, existingStart, existingEnd) ==
    ~(endMinutes <= existingStart \/ startMinutes >= existingEnd)

\* const conflictType = task.position.row === row ? ... : ...
conflictType(task, row) ==
    IF task.position.row = row
        THEN <<"same-row">>
        ELSE <<"other-row (row ">> \o toString(task.position.row + 1) \o <<")">>

\* mutant: equal intervals keep the initial value of overlapType
overlapType_equalIsComplete(startMinutes, endMinutes, existingStart, existingEnd) ==
    IF startMinutes = existingStart /\ endMinutes = existingEnd
        THEN <<"complete">>
    ELSE IF startMinutes < existingStart /\ endMinutes > existingEnd
        THEN <<"containing">>
    ELSE IF startMinutes >= existingStart /\ endMinutes <= existingEnd
        THEN <<"contained">>
    ELSE IF startMinutes < existingStart
        THEN <<"front">>
    ELSE IF endMinutes > existingEnd
        THEN <<"back">>
    ELSE <<"partial">>

\* mutant: the front test is made before the containing test
overlapType_frontFirst(startMinutes, endMinutes, existingStart, existingEnd) ==
    IF startMinutes < existingStart
        THEN <<"front">>
    ELSE IF startMinutes < existingStart /\ endMinutes > existingEnd
        THEN <<"containing">>
    ELSE IF startMinutes >= existingStart /\ endMinutes <= existingEnd
        THEN <<"contained">>
    ELSE IF endMinutes > existingEnd
        THEN <<"back">>
    ELSE <<"partial">>

\* let overlapType = '完全重複'; if ... else if ... else ...
\* mutant: contained means strictly inside
overlapType_strictContained(startMinutes, endMinutes, existingStart, existingEnd) ==
    IF startMinutes < existingStart /\ endMinutes > existingEnd
        THEN <<"containing">>
    ELSE IF startMinutes > existingStart /\ endMinutes < existingEnd
        THEN <<"contained">>
    ELSE IF startMinutes < existingStart
        THEN <<"front">>
    ELSE IF endMinutes > existingEnd
        THEN <<"back">>
    ELSE <<"partial">>

overlapType(startMinutes, endMinutes, existingStart, existingEnd) ==
    IF startMinutes < existingStart /\ endMinutes > existingEnd
        THEN <<"containing">>
    ELSE IF startMinutes >= existingStart /\ endMinutes <= existingEnd
        THEN <<"contained">>
    ELSE IF startMinutes < existingStart
        THEN <<"front">>
    ELSE IF endMinutes > existingEnd
        THEN <<"back">>
    ELSE <<"partial">>

\* mutant: only the tasks of the target row are looked at
forEachCallback_sameRowOnly(task, taskId, row, startMinutes, endMinutes) ==
    IF task.id = taskId \/ task.position = null THEN <<>>
    ELSE IF task.position.row # row THEN <<>>
    ELSE
      LET existingStart == timeToMinutes(task.position.startTime)
          existingEnd == existingStart + task.duration * 15
      IN  IF hasTimeOverlap(startMinutes, endMinutes, existingStart, existingEnd)
              THEN << [ task |-> task,
                        conflictType |-> conflictType(task, row),
                        overlapType |-> overlapType(startMinutes, endMinutes,
                                                    existingStart, existingEnd) ] >>
              ELSE <<>>

\* mutant: the task being checked is not skipped
forEachCallback_noSelfExclusion(task, taskId, row, startMinutes, endMinutes) ==
    IF task.position = null THEN <<>>
    ELSE
      LET existingStart == timeToMinutes(task.position.startTime)
          existingEnd == existingStart + task.duration * 15
      IN  IF hasTimeOverlap(startMinutes, endMinutes, existingStart, existingEnd)
              THEN << [ task |-> task,
                        conflictType |-> conflictType(task, row),
                        overlapType |-> overlapType(startMinutes, endMinutes,
                                                    existingStart, existingEnd) ] >>
              ELSE <<>>

\* the callback of tasks.forEach: the entries it pushes for one task
forEachCallback(task, taskId, row, startMinutes, endMinutes) ==
    IF task.id = taskId \/ task.position = null THEN <<>>
    ELSE
      LET existingStart == timeToMinutes(task.position.startTime)
          existingEnd == existingStart + task.duration * 15
      IN  IF hasTimeOverlap(startMinutes, endMinutes, existingStart, existingEnd)
              THEN << [ task |-> task,
                        conflictType |-> conflictType(task, row),
                        overlapType |-> overlapType(startMinutes, endMinutes,
                                                    existingStart, existingEnd) ] >>
              ELSE <<>>

checkTaskConflicts(list, taskId, row, startTime, duration) ==
    LET startMinutes == timeToMinutes(startTime)
        endMinutes == startMinutes + duration * 15
        RECURSIVE forEach(_)
        forEach(s) ==
            IF s = <<>> THEN <<>>
            ELSE forEachCallback(Head(s), taskId, row, startMinutes, endMinutes)
                     \o forEach(Tail(s))
        conflictingTasks == forEach(list)
    IN  [ hasConflict |-> Len(conflictingTasks) > 0,
          conflictingTasks |-> conflictingTasks ]

getPoolTasks(list) ==
    LET p(task) == task.position = null
    IN  SelectSeq(list, p)

getTimelineTasks(list) ==
    LET p(task) == task.position # null
    IN  SelectSeq(list, p)

\* tasks.find(...) || null : the first task with the id
findTaskById(list, taskId) ==
    IF \E i \in 1..Len(list) : list[i].id = taskId
        THEN list[CHOOSE i \in 1..Len(list) :
                      /\ list[i].id = taskId
                      /\ \A j \in 1..(i - 1) : list[j].id # taskId]
        ELSE null

----------------------------------------------------------------------------
(* ConflictService *)

(* The message, with its literals in ASCII: "conflict (" is                 *)
(* タスクの時間が重複しています (, "1 task" is 1つのタスクと重複, " tasks"   *)
(* is つのタスクと重複, " start, " is 開始, , "place elsewhere" is           *)
(* 別の時間帯または行に配置してください。                                    *)
generateConflictMessage(conflictingTasks) ==
    LET line(c) ==
            LET conflictStart == c.task.position.startTime
                durationText == formatDuration(c.task.duration)
            IN  <<"* ">> \o c.conflictType \o <<": \"">> \o c.task.name
                    \o <<"\" (">> \o conflictStart \o <<" start, ">>
                    \o durationText \o <<") - ">> \o c.overlapType
        conflictMessages ==
            join([k \in 1..Len(conflictingTasks) |-> line(conflictingTasks[k])], "\n")
        summary ==
            IF Len(conflictingTasks) = SINGLE_TASK_COUNT
                THEN <<"1 task">>
                ELSE toString(Len(conflictingTasks)) \o <<" tasks">>
    IN  <<"conflict (">> \o summary \o <<"):\n\n">> \o conflictMessages
            \o <<"\n\nplace elsewhere">>

----------------------------------------------------------------------------
(* useTasks(workingStart, workingEnd): the hook's parameters and the        *)
(* arguments its handlers are called with.                                  *)

workingStart == <<"0", "9", ":", "0", "0">>
workingEnd == <<"1", "0", ":", "0", "0">>

\* ids Date.now() can give rise to; one not in the list is an unknown id
TaskIds == { <<"task-">> \o toString(k) : k \in 1..MaxClock }

Rows == 0..(NumRows - 1)

\* the grid labels offered to a drop, from one slot before workingStart
DropTimes ==
    { minutesToTime(timeToMinutes(workingStart)
                        + (k - 1) * TIME_SLOT_INCREMENT_MINUTES) : k \in 0..(NumSlots - 1) }

\* the range of the duration slider of the settings panel
Durations == MIN_TASK_DURATION_UNITS..MaxDuration

\* the name typed into the settings panel
EditedName == <<"Edited">>

\* a task object whose id is not in the list (a stale reference)
StaleTask(taskId) ==
    [ id |-> taskId, name |-> EditedName,
      duration |-> DEFAULT_TASK_DURATION_UNITS, position |-> null ]

\* the task objects the settings panel can hold: a task of the list, or a
\* stale one
EditableTasks ==
    { tasks[i] : i \in 1..Len(tasks) }
        \cup { StaleTask(id) : id \in
                   { x \in TaskIds : \A i \in 1..Len(tasks) : tasks[i].id # x } }

\* TaskSettings: onUpdateTask({ ...task, name: e.target.value })
RenamedTasks == { [t EXCEPT !.name = EditedName] : t \in EditableTasks }

\* TaskSettings: onUpdateTask({ ...task, duration: Number(e.target.value) })
ResizedTasks == { [t EXCEPT !.duration = d] : t \in EditableTasks, d \in Durations }

UpdatedTasks == RenamedTasks \cup ResizedTasks

\* alert('業務時間外には配置できません')
OutOfHoursMessage == <<"cannot place outside working hours">>

----------------------------------------------------------------------------
(* App: the placement logic written inline in the component.  Its string    *)
(* literals are the literals of the services and have the same ASCII stand- *)
(* ins.  workingHours is useState({ start, end }), here the hours the hook  *)
(* is given.                                                                 *)

workingHours == [ start |-> workingStart, end |-> workingEnd ]

\* const timeToMinutes = (timeStr) => { ... } of App
App_timeToMinutes(timeStr) ==
    LET parts == split(timeStr, ":")
        hours == Number(parts[1])
        minutes == Number(parts[2])
    IN  hours * 60 + minutes

\* mutant: only the tasks of the target row are looked at, as the retired
\* checkTaskConflict does
checkAllRowsConflict_sameRowOnly(list, taskId, row, startTime, duration) ==
    LET startMinutes == App_timeToMinutes(startTime)
        endMinutes == startMinutes + duration * 15
        \* tasks.forEach((task) => { ... }): what one task pushes
        forEach(task) ==
            IF task.id = taskId \/ task.position = null THEN <<>>
            ELSE IF task.position.row # row THEN <<>>
            ELSE
              LET existingStart == App_timeToMinutes(task.position.startTime)
                  existingEnd == existingStart + task.duration * 15
                  hasOverlap == ~(endMinutes <= existingStart \/ startMinutes >= existingEnd)
                  type == IF task.position.row = row
                              THEN <<"same-row">>
                              ELSE <<"other-row (row ">>
                                       \o toString(task.position.row + 1) \o <<")">>
                  \* let overlapType = "完全重複"; if ... else if ... else ...
                  shape ==
                      IF startMinutes < existingStart /\ endMinutes > existingEnd
                          THEN <<"containing">>
                      ELSE IF startMinutes >= existingStart /\ endMinutes <= existingEnd
                          THEN <<"contained">>
                      ELSE IF startMinutes < existingStart
                          THEN <<"front">>
                      ELSE IF endMinutes > existingEnd
                          THEN <<"back">>
                      ELSE <<"partial">>
              IN  IF hasOverlap
                      THEN << [ task |-> task, conflictType |-> type,
                                overlapType |-> shape ] >>
                      ELSE <<>>
        RECURSIVE pushed(_)
        pushed(s) == IF s = <<>> THEN <<>> ELSE forEach(Head(s)) \o pushed(Tail(s))
        conflictingTasks == pushed(list)
    IN  [ hasConflict |-> Len(conflictingTasks) > 0,
          conflictingTasks |-> conflictingTasks ]

checkAllRowsConflict(list, taskId, row, startTime, duration) ==
    LET startMinutes == App_timeToMinutes(startTime)
        endMinutes == startMinutes + duration * 15
        \* tasks.forEach((task) => { ... }): what one task pushes
        forEach(task) ==
            IF task.id = taskId \/ task.position = null THEN <<>>
            ELSE
              LET existingStart == App_timeToMinutes(task.position.startTime)
                  existingEnd == existingStart + task.duration * 15
                  hasOverlap == ~(endMinutes <= existingStart \/ startMinutes >= existingEnd)
                  type == IF task.position.row = row
                              THEN <<"same-row">>
                              ELSE <<"other-row (row ">>
                                       \o toString(task.position.row + 1) \o <<")">>
                  \* let overlapType = "完全重複"; if ... else if ... else ...
                  shape ==
                      IF startMinutes < existingStart /\ endMinutes > existingEnd
                          THEN <<"containing">>
                      ELSE IF startMinutes >= existingStart /\ endMinutes <= existingEnd
                          THEN <<"contained">>
                      ELSE IF startMinutes < existingStart
                          THEN <<"front">>
                      ELSE IF endMinutes > existingEnd
                          THEN <<"back">>
                      ELSE <<"partial">>
              IN  IF hasOverlap
                      THEN << [ task |-> task, conflictType |-> type,
                                overlapType |-> shape ] >>
                      ELSE <<>>
        RECURSIVE pushed(_)
        pushed(s) == IF s = <<>> THEN <<>> ELSE forEach(Head(s)) \o pushed(Tail(s))
        conflictingTasks == pushed(list)
    IN  [ hasConflict |-> Len(conflictingTasks) > 0,
          conflictingTasks |-> conflictingTasks ]

\* handleTaskDropToTimeline of App, as an effect on tasks
handleTaskDropToTimeline(taskId, row, startTime) ==
    LET found(t) == t.id = taskId
        task == IF \E i \in 1..Len(tasks) : found(tasks[i])
                    THEN tasks[CHOOSE i \in 1..Len(tasks) :
                                   found(tasks[i]) /\ \A j \in 1..(i - 1) : ~found(tasks[j])]
                    ELSE null
        conflictResult == checkAllRowsConflict(tasks, taskId, row, startTime, task.duration)
        line(c) ==
            LET conflictStart == c.task.position.startTime
                conflictDuration == c.task.duration * 15
                hours == conflictDuration \div 60
                minutes == conflictDuration % 60
                durationText ==
                    IF hours > 0
                        THEN toString(hours) \o <<"h">>
                                 \o (IF minutes > 0 THEN toString(minutes) \o <<"m">>
                                                    ELSE <<>>)
                        ELSE toString(minutes) \o <<"m">>
            IN  <<"* ">> \o c.conflictType \o <<": \"">> \o c.task.name
                    \o <<"\" (">> \o conflictStart \o <<" start, ">>
                    \o durationText \o <<") - ">> \o c.overlapType
        conflictMessages ==
            join([k \in 1..Len(conflictResult.conflictingTasks) |->
                      line(conflictResult.conflictingTasks[k])], "\n")
        summary ==
            IF Len(conflictResult.conflictingTasks) = 1
                THEN <<"1 task">>
                ELSE toString(Len(conflictResult.conflictingTasks)) \o <<" tasks">>
        startMinutes == App_timeToMinutes(startTime)
        endMinutes == startMinutes + task.duration * 15
        workStartMinutes == App_timeToMinutes(workingHours.start)
        workEndMinutes == App_timeToMinutes(workingHours.end)
    IN  IF task = null
            THEN [ tasks |-> tasks, selectedTaskId |-> selectedTaskId,
                   alerts |-> <<>>, called |-> <<>> ]
        ELSE IF conflictResult.hasConflict
            THEN [ tasks |-> tasks, selectedTaskId |-> selectedTaskId,
                   alerts |-> << <<"conflict (">> \o summary \o <<"):\n\n">>
                                     \o conflictMessages
                                     \o <<"\n\nplace elsewhere">> >>,
                   called |-> <<"checkAllRowsConflict">> ]
        ELSE IF startMinutes < workStartMinutes \/ endMinutes > workEndMinutes
            THEN [ tasks |-> tasks, selectedTaskId |-> selectedTaskId,
                   alerts |-> <<OutOfHoursMessage>>,
                   called |-> <<"checkAllRowsConflict">> ]
        ELSE [ tasks |-> [ i \in 1..Len(tasks) |->
                             IF tasks[i].id = taskId
                                 THEN [ tasks[i] EXCEPT
                                          !.position = [ row |-> row,
                                                         startTime |-> startTime ] ]
                                 ELSE tasks[i] ],
               selectedTaskId |-> selectedTaskId,
               alerts |-> <<>>,
               called |-> <<"checkAllRowsConflict">> ]

----------------------------------------------------------------------------
(* The state after the first render *)

Init ==
    /\ tasks = <<>>
    /\ selectedTaskId = null
    /\ now = 1
    /\ alerts = <<>>
    /\ called = <<>>
    /\ pendingTasks = <<>>
    /\ pendingSelectedTaskId = null
    /\ timeSlotTaskMap = <<>>
    /\ callArgs = null
    /\ returned = null

(* A handler of the hook is an operator giving the effect of one call in    *)
(* the current state: the list and the selection its setTasks and           *)
(* setSelectedTaskId calls leave, the alerts it raised and the service      *)
(* functions it evaluated.  Without a set call the state keeps its value.   *)

createTask ==
    LET newTask == createNewTask(tasks, now)
    IN  [ tasks |-> tasks \o <<newTask>>,
          selectedTaskId |-> selectedTaskId,
          alerts |-> <<>>,
          called |-> <<"createNewTask">> ]

\* mutant: an update of a placed task is checked like a drop
updateTask_checked(updatedTask) ==
    LET conflictResult ==
            checkTaskConflicts(tasks, updatedTask.id, updatedTask.position.row,
                               updatedTask.position.startTime, updatedTask.duration)
    IN  IF updatedTask.position # null /\ conflictResult.hasConflict
            THEN [ tasks |-> tasks,
                   selectedTaskId |-> selectedTaskId,
                   alerts |-> <<generateConflictMessage(
                                    conflictResult.conflictingTasks)>>,
                   called |-> <<"checkTaskConflicts", "generateConflictMessage">> ]
            ELSE [ tasks |-> updateTaskInList(tasks, updatedTask),
                   selectedTaskId |-> selectedTaskId,
                   alerts |-> <<>>,
                   called |-> <<"checkTaskConflicts", "updateTaskInList">> ]

updateTask(updatedTask) ==
    [ tasks |-> updateTaskInList(tasks, updatedTask),
      selectedTaskId |-> selectedTaskId,
      alerts |-> <<>>,
      called |-> <<"updateTaskInList">> ]

\* mutant: the selection is cleared only when the deleted task is selected
deleteTask_keepsOtherSelection(taskId) ==
    [ tasks |-> deleteTaskFromList(tasks, taskId),
      selectedTaskId |-> IF taskId = selectedTaskId THEN null ELSE selectedTaskId,
      alerts |-> <<>>,
      called |-> <<"deleteTaskFromList">> ]

deleteTask(taskId) ==
    [ tasks |-> deleteTaskFromList(tasks, taskId),
      selectedTaskId |-> null,
      alerts |-> <<>>,
      called |-> <<"deleteTaskFromList">> ]

selectTask(taskId) ==
    [ tasks |-> tasks,
      selectedTaskId |-> taskId,
      alerts |-> <<>>,
      called |-> <<>> ]

\* mutant: the working hours are checked before the conflicts
dropTaskToTimeline_hoursFirst(taskId, row, startTime) ==
    LET task == findTaskById(tasks, taskId)
        conflictResult ==
            checkTaskConflicts(tasks, taskId, row, startTime, task.duration)
    IN  IF task = null
            THEN [ tasks |-> tasks,
                   selectedTaskId |-> selectedTaskId,
                   alerts |-> <<>>,
                   called |-> <<"findTaskById">> ]
        ELSE IF ~isWithinWorkingHours(startTime, task.duration,
                                      workingStart, workingEnd)
            THEN [ tasks |-> tasks,
                   selectedTaskId |-> selectedTaskId,
                   alerts |-> <<OutOfHoursMessage>>,
                   called |-> <<"findTaskById", "isWithinWorkingHours">> ]
        ELSE IF conflictResult.hasConflict
            THEN [ tasks |-> tasks,
                   selectedTaskId |-> selectedTaskId,
                   alerts |-> <<generateConflictMessage(
                                    conflictResult.conflictingTasks)>>,
                   called |-> <<"findTaskById", "isWithinWorkingHours",
                                "checkTaskConflicts", "generateConflictMessage">> ]
        ELSE [ tasks |-> placeTaskOnTimeline(tasks, taskId, row, startTime),
               selectedTaskId |-> selectedTaskId,
               alerts |-> <<>>,
               called |-> <<"findTaskById", "isWithinWorkingHours",
                            "checkTaskConflicts", "placeTaskOnTimeline">> ]

dropTaskToTimeline(taskId, row, startTime) ==
    LET task == findTaskById(tasks, taskId)
        conflictResult ==
            checkTaskConflicts(tasks, taskId, row, startTime, task.duration)
    IN  IF task = null
            THEN [ tasks |-> tasks,
                   selectedTaskId |-> selectedTaskId,
                   alerts |-> <<>>,
                   called |-> <<"findTaskById">> ]
        ELSE IF conflictResult.hasConflict
            THEN [ tasks |-> tasks,
                   selectedTaskId |-> selectedTaskId,
                   alerts |-> <<generateConflictMessage(
                                    conflictResult.conflictingTasks)>>,
                   called |-> <<"findTaskById", "checkTaskConflicts",
                                "generateConflictMessage">> ]
        ELSE IF ~isWithinWorkingHours(startTime, task.duration,
                                      workingStart, workingEnd)
            THEN [ tasks |-> tasks,
                   selectedTaskId |-> selectedTaskId,
                   alerts |-> <<OutOfHoursMessage>>,
                   called |-> <<"findTaskById", "checkTaskConflicts",
                                "isWithinWorkingHours">> ]
        ELSE [ tasks |-> placeTaskOnTimeline(tasks, taskId, row, startTime),
               selectedTaskId |-> selectedTaskId,
               alerts |-> <<>>,
               called |-> <<"findTaskById", "checkTaskConflicts",
                            "isWithinWorkingHours", "placeTaskOnTimeline">> ]

dropTaskToPool(taskId) ==
    [ tasks |-> returnTaskToPool(tasks, taskId),
      selectedTaskId |-> selectedTaskId,
      alerts |-> <<>>,
      called |-> <<"returnTaskToPool">> ]

\* the handler returns and React renders the state it set
Commit(effect) ==
    /\ tasks' = effect.tasks
    /\ selectedTaskId' = effect.selectedTaskId
    /\ alerts' = effect.alerts
    /\ called' = effect.called
    /\ pendingTasks' = effect.tasks
    /\ pendingSelectedTaskId' = effect.selectedTaskId
    /\ UNCHANGED <<now, timeSlotTaskMap, callArgs, returned>>

\* time passes: Date.now() never decreases
Tick ==
    /\ now < MaxClock
    /\ now' = now + 1
    /\ UNCHANGED <<tasks, selectedTaskId, alerts, called,
                   pendingTasks, pendingSelectedTaskId, timeSlotTaskMap, callArgs, returned>>

CreateTask == Len(tasks) < MaxTasks /\ Commit(createTask)

RenameTask == \E updatedTask \in RenamedTasks : Commit(updateTask(updatedTask))

ResizeTask == \E updatedTask \in ResizedTasks : Commit(updateTask(updatedTask))

UpdateTask == RenameTask \/ ResizeTask

DeleteTask == \E taskId \in TaskIds : Commit(deleteTask(taskId))

SelectTask == \E taskId \in TaskIds : Commit(selectTask(taskId))

DropTaskToTimeline ==
    \E taskId \in TaskIds, row \in Rows, startTime \in DropTimes :
        Commit(dropTaskToTimeline(taskId, row, startTime))

DropTaskToPool == \E taskId \in TaskIds : Commit(dropTaskToPool(taskId))

Next ==
    \/ Tick
    \/ CreateTask
    \/ UpdateTask
    \/ DeleteTask
    \/ SelectTask
    \/ DropTaskToTimeline
    \/ DropTaskToPool

Spec == Init /\ [][Next]_vars

\* the same program when the settings panel is never used (no updateTask)
NextNoUpdate ==
    \/ Tick
    \/ CreateTask
    \/ DeleteTask
    \/ SelectTask
    \/ DropTaskToTimeline
    \/ DropTaskToPool

SpecNoUpdate == Init /\ [][NextNoUpdate]_vars

\* the operations that decide which intervals the list holds: the program
\* without selectTask and without name edits
NextPlacement ==
    \/ Tick
    \/ CreateTask
    \/ ResizeTask
    \/ DeleteTask
    \/ DropTaskToTimeline
    \/ DropTaskToPool

SpecPlacement == Init /\ [][NextPlacement]_vars

(* The handlers are useCallback closures over the tasks of the render that   *)
(* made them, and they pass a value to setTasks, not an updater.  A caller   *)
(* that issues several calls before React renders again (in one event        *)
(* handler, in one act()) uses the handlers of the same render for all of    *)
(* them: each call reads the rendered tasks, and the next render takes the   *)
(* value of the last setTasks / setSelectedTaskId call.                      *)

\* the handler called setTasks
SetsTasks(effect) ==
    \E k \in 1..Len(effect.called) :
        effect.called[k] \in { "createNewTask", "updateTaskInList", "deleteTaskFromList",
                               "placeTaskOnTimeline", "returnTaskToPool" }

\* a handler of the latest render is called and returns; no render yet
Call(effect, setsSelectedTaskId) ==
    /\ pendingTasks' = IF SetsTasks(effect) THEN effect.tasks ELSE pendingTasks
    /\ pendingSelectedTaskId' =
           IF setsSelectedTaskId THEN effect.selectedTaskId ELSE pendingSelectedTaskId
    /\ alerts' = effect.alerts
    /\ called' = effect.called
    /\ UNCHANGED <<tasks, selectedTaskId, now, timeSlotTaskMap, callArgs, returned>>

\* React renders: the state takes the pending values, the handlers are new
Render ==
    /\ tasks' = pendingTasks
    /\ selectedTaskId' = pendingSelectedTaskId
    /\ UNCHANGED <<now, alerts, called, pendingTasks, pendingSelectedTaskId,
                   timeSlotTaskMap, callArgs, returned>>

CallCreateTask == Len(tasks) < MaxTasks /\ Call(createTask, FALSE)

CallUpdateTask(updatedTask) == Call(updateTask(updatedTask), FALSE)

CallDeleteTask(taskId) == Call(deleteTask(taskId), TRUE)

CallDropTaskToTimeline(taskId, row, startTime) ==
    Call(dropTaskToTimeline(taskId, row, startTime), FALSE)

CallDropTaskToPool(taskId) == Call(dropTaskToPool(taskId), FALSE)

\* the mutation requests of the hook, issued with or without a render
\* between them
NextBatched ==
    \/ Tick
    \/ Render
    \/ CallCreateTask
    \/ \E updatedTask \in ResizedTasks : CallUpdateTask(updatedTask)
    \/ \E taskId \in TaskIds : CallDeleteTask(taskId)
    \/ \E taskId \in TaskIds, row \in Rows, startTime \in DropTimes :
           CallDropTaskToTimeline(taskId, row, startTime)
    \/ \E taskId \in TaskIds : CallDropTaskToPool(taskId)

SpecBatched == Init /\ [][NextBatched]_vars

----------------------------------------------------------------------------
(* TimelineUtils.  A JavaScript Map is the sequence of its entries           *)
(* [key, value] in insertion order.                                          *)

mapHas(map, key) == \E e \in 1..Len(map) : map[e].key = key

\* Map.prototype.get for a key the map has
mapGet(map, key) == map[CHOOSE e \in 1..Len(map) : map[e].key = key].value

\* Map.prototype.set: the entry of the key is replaced, or added at the end
mapSet(map, key, value) ==
    IF mapHas(map, key)
        THEN [e \in 1..Len(map) |->
                  IF map[e].key = key THEN [key |-> key, value |-> value] ELSE map[e]]
        ELSE map \o << [key |-> key, value |-> value] >>

\* mutant: the hour wraps at midnight
TimelineUtils_minutesToTime_wraps(minutes) ==
    LET hours == (minutes \div MINUTES_PER_HOUR) % 24
        mins == minutes % MINUTES_PER_HOUR
    IN  padStart(toString(hours), TIME_STRING_PADDING_LENGTH, "0")
            \o <<":">>
            \o padStart(toString(mins), TIME_STRING_PADDING_LENGTH, "0")

\* private static minutesToTime of TimelineUtils
TimelineUtils_minutesToTime(minutes) ==
    LET hours == minutes \div MINUTES_PER_HOUR
        mins == minutes % MINUTES_PER_HOUR
    IN  padStart(toString(hours), TIME_STRING_PADDING_LENGTH, "0")
            \o <<":">>
            \o padStart(toString(mins), TIME_STRING_PADDING_LENGTH, "0")

createTimeSlotTaskMap(list) ==
    LET p(task) == task.position # null
        \* for (let time = taskStart; time < taskEnd; time += 15) { ... }
        RECURSIVE forLoop(_, _, _, _)
        forLoop(map, task, time, taskEnd) ==
            IF time < taskEnd
                THEN LET timeSlot == TimelineUtils_minutesToTime(time)
                         withKey == IF ~mapHas(map, timeSlot)
                                        THEN mapSet(map, timeSlot, <<>>)
                                        ELSE map
                         pushed == mapSet(withKey, timeSlot,
                                          Append(mapGet(withKey, timeSlot), task))
                     IN  forLoop(pushed, task, time + TIME_SLOT_INCREMENT_MINUTES, taskEnd)
                ELSE map
        \* .forEach((task) => { ... }) on the map built so far
        RECURSIVE forEach(_, _)
        forEach(map, s) ==
            IF s = <<>> THEN map
            ELSE LET task == Head(s)
                     taskStart == timeToMinutes(task.position.startTime)
                     taskEnd == taskStart + task.duration * TIME_SLOT_INCREMENT_MINUTES
                 IN  forEach(forLoop(map, task, taskStart, taskEnd), Tail(s))
    IN  forEach(<<>>, SelectSeq(list, p))

\* tasks.find(...) || null
getTaskAtPosition(list, row, timeSlot) ==
    LET found(task) ==
            IF task.position = null THEN FALSE
            ELSE IF task.position.row # row THEN FALSE
            ELSE LET taskStart == timeToMinutes(task.position.startTime)
                     taskEnd == taskStart + task.duration * TIME_SLOT_INCREMENT_MINUTES
                     slotTime == timeToMinutes(timeSlot)
                 IN  slotTime >= taskStart /\ slotTime < taskEnd
    IN  IF \E i \in 1..Len(list) : found(list[i])
            THEN list[CHOOSE i \in 1..Len(list) :
                          found(list[i]) /\ \A j \in 1..(i - 1) : ~found(list[j])]
            ELSE null

\* mutant: every slot of a placed task is its start slot
isTaskStartSlot_everySlot(task, timeSlot) ==
    IF task.position = null THEN FALSE ELSE TRUE

\* task.position?.startTime === timeSlot
isTaskStartSlot(task, timeSlot) ==
    IF task.position = null THEN FALSE ELSE task.position.startTime = timeSlot

(* ConflictService: the tasks of a time slot *)

\* mutant: the end of the task is counted in
getTasksInTimeSlot_closedEnd(list, timeSlot) ==
    LET slotTime == timeToMinutes(timeSlot)
        p(task) ==
            IF task.position = null THEN FALSE
            ELSE LET taskStart == timeToMinutes(task.position.startTime)
                     taskEnd == taskStart + task.duration * TIME_SLOT_INCREMENT_MINUTES
                 IN  slotTime >= taskStart /\ slotTime <= taskEnd
    IN  SelectSeq(list, p)

getTasksInTimeSlot(list, timeSlot) ==
    LET slotTime == timeToMinutes(timeSlot)
        p(task) ==
            IF task.position = null THEN FALSE
            ELSE LET taskStart == timeToMinutes(task.position.startTime)
                     taskEnd == taskStart + task.duration * TIME_SLOT_INCREMENT_MINUTES
                 IN  slotTime >= taskStart /\ slotTime < taskEnd
    IN  SelectSeq(list, p)

\* mutant: one task in the slot is a conflict
hasTimeSlotConflict_oneIsEnough(list, timeSlot) ==
    Len(getTasksInTimeSlot(list, timeSlot)) >= CONFLICT_THRESHOLD

\* tasksInSlot.length > CONFLICT_THRESHOLD
hasTimeSlotConflict(list, timeSlot) ==
    Len(getTasksInTimeSlot(list, timeSlot)) > CONFLICT_THRESHOLD

\* '' without a conflict, else "Conflict detected: " and, joined by ", ",
\* the name in quotes and "(Row n)" of every task of the slot
generateConflictTooltip(list, timeSlot) ==
    IF ~hasTimeSlotConflict(list, timeSlot) THEN <<>>
    ELSE LET conflictingTasks == getTasksInTimeSlot(list, timeSlot)
             text(task) == <<"\"">> \o task.name \o <<"\" (Row ">>
                               \o toString(task.position.row + DISPLAY_INDEX_OFFSET)
                               \o <<")">>
         IN  <<"Conflict detected: ">>
                 \o join([k \in 1..Len(conflictingTasks) |-> text(conflictingTasks[k])],
                         ", ")

(* The TimeSlot component: what one cell of the grid shows.  occupied is the *)
(* class "occupied" (else "empty"), conflict the class "conflict", title the *)
(* tooltip, card the task whose TaskCard is drawn in the cell, or null.      *)
TimeSlot(list, timelineTasks, timeSlot, rowIndex) ==
    LET taskAtPosition == getTaskAtPosition(timelineTasks, rowIndex, timeSlot)
        hasConflict == hasTimeSlotConflict(list, timeSlot)
        isConflictSlot == hasConflict /\ taskAtPosition # null
        conflictTooltip == generateConflictTooltip(list, timeSlot)
    IN  [ occupied |-> taskAtPosition # null,
          conflict |-> isConflictSlot,
          title |-> conflictTooltip,
          card |-> IF taskAtPosition # null /\ isTaskStartSlot(taskAtPosition, timeSlot)
                       THEN taskAtPosition
                       ELSE null ]

(* The Timeline component: one TimeSlot per row and per label of the working *)
(* hours.                                                                    *)
Timeline(list, start, end) ==
    LET timeSlots == generateTimeSlots(start, end)
        p(task) == task.position # null
        timelineTasks == SelectSeq(list, p)
    IN  [ rowIndex \in Rows |->
            [ k \in 1..Len(timeSlots) |->
                TimeSlot(list, timelineTasks, timeSlots[k], rowIndex) ] ]

(* The arguments TimelineUtils is called with: any list of tasks.            *)

\* start times on the grid, off the grid and close to midnight
AnyStartTimes ==
    { <<"0", "9", ":", "0", "0">>, <<"0", "9", ":", "0", "5">>,
      <<"0", "9", ":", "1", "5">>, <<"2", "3", ":", "3", "0">>,
      <<"2", "3", ":", "4", "5">> }

AnyPlacedTasks ==
    { [ id |-> id, name |-> EditedName, duration |-> d,
        position |-> [row |-> row, startTime |-> startTime] ] :
          id \in TaskIds, d \in 0..MaxDuration,
          row \in Rows, startTime \in AnyStartTimes }

AnyPoolTasks ==
    { [ id |-> id, name |-> EditedName, duration |-> d, position |-> null ] :
          id \in TaskIds, d \in 0..MaxDuration }

\* the slot labels asked about: from each start time to the end of the
\* longest task from it
AnySlots ==
    { minutesToTime(timeToMinutes(startTime) + k * TIME_SLOT_INCREMENT_MINUTES) :
          startTime \in AnyStartTimes, k \in 0..MaxDuration }

\* the lists of at most MaxTasks tasks
AnyTaskLists ==
    UNION { [1..n -> AnyPlacedTasks \cup AnyPoolTasks] : n \in 0..MaxTasks }

InitTimelineUtils ==
    /\ tasks \in AnyTaskLists
    /\ selectedTaskId = null
    /\ now = 1
    /\ alerts = <<>>
    /\ called = <<>>
    /\ pendingTasks = tasks
    /\ pendingSelectedTaskId = null
    /\ timeSlotTaskMap = <<>>
    /\ callArgs = null
    /\ returned = null

\* TimelineUtils.createTimeSlotTaskMap(tasks) is called and returns
CreateTimeSlotTaskMap ==
    /\ called = <<>>
    /\ timeSlotTaskMap' = createTimeSlotTaskMap(tasks)
    /\ called' = <<"createTimeSlotTaskMap">>
    /\ UNCHANGED <<tasks, selectedTaskId, now, alerts,
                   pendingTasks, pendingSelectedTaskId, callArgs, returned>>

NextTimelineUtils == CreateTimeSlotTaskMap

SpecTimelineUtils == InitTimelineUtils /\ [][NextTimelineUtils]_vars

----------------------------------------------------------------------------
(* timeUtils called on its own: one call of one function, with any           *)
(* arguments.                                                                *)

MINUTES_PER_DAY == 24 * MINUTES_PER_HOUR

\* the zero-padded string HH:MM of an hour and a minute
HHMM(hours, mins) ==
    << Digits[(hours \div 10) + 1], Digits[(hours % 10) + 1], ":",
       Digits[(mins \div 10) + 1], Digits[(mins % 10) + 1] >>

\* every zero-padded HH:MM string of a day
DayTimes == { HHMM(hours, mins) : hours \in 0..23, mins \in 0..59 }

\* times on and off the 15-minute grid, within and across the hour
AnyTimes ==
    { HHMM(8, 45), HHMM(9, 0), HHMM(9, 5), HHMM(9, 15), HHMM(9, 30),
      HHMM(9, 35), HHMM(10, 0), HHMM(11, 45), HHMM(12, 15) }

AnyCalls ==
    { [ function |-> "isWithinWorkingHours", startTime |-> startTime,
        duration |-> duration, workingStart |-> start, workingEnd |-> end ] :
          startTime \in AnyTimes, duration \in 0..MaxDuration,
          start \in AnyTimes, end \in AnyTimes }
    \cup { [ function |-> "generateTimeSlots", startTime |-> start, endTime |-> end ] :
              start \in AnyTimes, end \in AnyTimes }
    \cup { [ function |-> "minutesToTime", minutes |-> minutes ] :
              minutes \in 0..(MINUTES_PER_DAY - 1) }
    \cup { [ function |-> "timeToMinutes", timeStr |-> timeStr ] :
              timeStr \in DayTimes }

InitTimeUtils ==
    /\ tasks = <<>>
    /\ selectedTaskId = null
    /\ now = 1
    /\ alerts = <<>>
    /\ called = <<>>
    /\ pendingTasks = <<>>
    /\ pendingSelectedTaskId = null
    /\ timeSlotTaskMap = <<>>
    /\ callArgs \in AnyCalls
    /\ returned = null

\* the function is called and returns
Returns(function, value) ==
    /\ called = <<>>
    /\ callArgs.function = function
    /\ returned' = value
    /\ called' = <<function>>
    /\ UNCHANGED <<tasks, selectedTaskId, now, alerts, pendingTasks,
                   pendingSelectedTaskId, timeSlotTaskMap, callArgs>>

IsWithinWorkingHours ==
    Returns("isWithinWorkingHours",
            isWithinWorkingHours(callArgs.startTime, callArgs.duration,
                                 callArgs.workingStart, callArgs.workingEnd))

GenerateTimeSlots ==
    Returns("generateTimeSlots", generateTimeSlots(callArgs.startTime, callArgs.endTime))

MinutesToTime == Returns("minutesToTime", minutesToTime(callArgs.minutes))

TimeToMinutes == Returns("timeToMinutes", timeToMinutes(callArgs.timeStr))

NextTimeUtils ==
    \/ IsWithinWorkingHours
    \/ GenerateTimeSlots
    \/ MinutesToTime
    \/ TimeToMinutes

SpecTimeUtils == InitTimeUtils /\ [][NextTimeUtils]_vars

----------------------------------------------------------------------------
(* Vocabulary of the properties *)

Max(a, b) == IF a >= b THEN a ELSE b
Min(a, b) == IF a <= b THEN a ELSE b

\* timeToMinutes on the labels a drop can be given, tabulated
MinutesOf == [label \in DropTimes |-> timeToMinutes(label)]

\* the working hours in minutes
WorkStart == timeToMinutes(workingStart)
WorkEnd == timeToMinutes(workingEnd)

Placed(t) == t.position # null
StartOf(t) == MinutesOf[t.position.startTime]
EndOf(t) == StartOf(t) + t.duration * 15

\* the half-open intervals [s1, e1) and [s2, e2) share an instant
Overlap(s1, e1, s2, e2) == Max(s1, s2) < Min(e1, e2)

\* the candidate ids of a conflict check: the ids of the model and an id
\* that is never issued (Date.now() starts at 1)
CandidateIds == TaskIds \cup { <<"task-">> \o toString(0) }

Indices == 1..Len(tasks)
Exists(taskId) == \E i \in Indices : tasks[i].id = taskId
IdsDistinct == \A i, j \in Indices : i # j => tasks[i].id # tasks[j].id

\* the interval a drop of taskId at startTime asks for
CandStart(startTime) == MinutesOf[startTime]
CandEnd(taskId, startTime) ==
    CandStart(startTime) + findTaskById(tasks, taskId).duration * 15

\* some placed task with another id overlaps the interval the drop asks for
OverlapsOther(taskId, startTime) ==
    \E i \in Indices :
        /\ tasks[i].id # taskId
        /\ Placed(tasks[i])
        /\ Overlap(CandStart(startTime), CandEnd(taskId, startTime),
                   StartOf(tasks[i]), EndOf(tasks[i]))

\* the interval the drop asks for is not entirely inside the working hours
OutsideHours(taskId, startTime) ==
    \/ CandStart(startTime) < WorkStart
    \/ CandEnd(taskId, startTime) > WorkEnd

IsConflictMessage(msg) == Len(msg) > 0 /\ msg[1] = "conflict ("

RejectedAsConflict == Len(alerts) = 1 /\ IsConflictMessage(alerts[1])
RejectedAsOutOfHours == alerts = <<OutOfHoursMessage>>
Accepted == Len(called) = 4 /\ called[4] = "placeTaskOnTimeline"

----------------------------------------------------------------------------
(* C1: a drop of an existing task whose interval overlaps the interval of a  *)
(* placed task with another id, in any row, is rejected: the conflict        *)
(* message is the one alert raised and the task list is left as it was.      *)
C1_ConflictingDropRejected ==
    \A taskId \in TaskIds, startTime \in DropTimes :
        (Exists(taskId) /\ OverlapsOther(taskId, startTime))
        => \A row \in Rows :
               LET effect == dropTaskToTimeline(taskId, row, startTime)
               IN  /\ Len(effect.alerts) = 1
                   /\ IsConflictMessage(effect.alerts[1])
                   /\ effect.tasks = tasks

\* a conflict rejection happened, against a task in another row
C1_Witness ==
    /\ RejectedAsConflict
    /\ called = <<"findTaskById", "checkTaskConflicts", "generateConflictMessage">>
    /\ \E i, j \in Indices :
           /\ tasks[i].id # tasks[j].id
           /\ Placed(tasks[j])
           /\ \E row \in Rows, startTime \in DropTimes :
                  /\ row # tasks[j].position.row
                  /\ OverlapsOther(tasks[i].id, startTime)
                  /\ alerts = <<generateConflictMessage(
                                    checkTaskConflicts(tasks, tasks[i].id, row, startTime,
                                                       tasks[i].duration).conflictingTasks)>>

----------------------------------------------------------------------------
\* the instants of the part of the day the offered drops can cover
Instants ==
    LET low == WorkStart - TIME_SLOT_INCREMENT_MINUTES
    IN  low..(low + (NumSlots + MaxDuration) * TIME_SLOT_INCREMENT_MINUTES)

Covers(t, m) == Placed(t) /\ StartOf(t) <= m /\ m < EndOf(t)

(* C2: without updateTask, whenever the ids in the list are pairwise         *)
(* distinct, at most one placed task covers any instant of the timeline,     *)
(* whatever the rows of the placed tasks.                                    *)
C2_NoTwoPlacedTasksOverlap ==
    IdsDistinct =>
        \A m \in Instants :
            Cardinality({ i \in Indices : Covers(tasks[i], m) }) <= 1

\* two tasks are placed, in different rows, the second by an accepted drop
C2_Witness ==
    /\ Accepted
    /\ \E i, j \in Indices :
           /\ tasks[i].id # tasks[j].id
           /\ Placed(tasks[i]) /\ Placed(tasks[j])
           /\ tasks[i].position.row # tasks[j].position.row

----------------------------------------------------------------------------
NotEvaluated(effect, function) ==
    \A k \in 1..Len(effect.called) : effect.called[k] # function

(* C3: a drop that is both conflicting and outside working hours raises the  *)
(* conflict message and nothing else: the working-hours message is not       *)
(* raised and isWithinWorkingHours is not evaluated.                         *)
C3_ConflictBeforeWorkingHours ==
    \A taskId \in TaskIds, startTime \in DropTimes :
        ( /\ Exists(taskId)
          /\ OverlapsOther(taskId, startTime)
          /\ OutsideHours(taskId, startTime) )
        => \A row \in Rows :
               LET effect == dropTaskToTimeline(taskId, row, startTime)
               IN  /\ Len(effect.alerts) = 1
                   /\ IsConflictMessage(effect.alerts[1])
                   /\ effect.alerts[1] # OutOfHoursMessage
                   /\ NotEvaluated(effect, "isWithinWorkingHours")
                   /\ effect.called[2] = "checkTaskConflicts"

\* the conflict message on display can only come from a drop that was both
\* conflicting and outside the working hours
C3_Witness ==
    /\ RejectedAsConflict
    /\ \E taskId \in TaskIds, row \in Rows, startTime \in DropTimes :
           /\ Exists(taskId)
           /\ OverlapsOther(taskId, startTime)
           /\ OutsideHours(taskId, startTime)
           /\ dropTaskToTimeline(taskId, row, startTime).alerts = alerts
    /\ \A taskId \in TaskIds, row \in Rows, startTime \in DropTimes :
           (Exists(taskId) /\ ~OutsideHours(taskId, startTime))
           => dropTaskToTimeline(taskId, row, startTime).alerts # alerts

----------------------------------------------------------------------------
(* C4: a drop of an existing task that conflicts with no task and whose      *)
(* interval is not entirely inside the working hours is rejected with the    *)
(* fixed out-of-hours message, and the task list is left as it was.          *)
C4_OutOfHoursDropRejected ==
    \A taskId \in TaskIds, startTime \in DropTimes :
        ( /\ Exists(taskId)
          /\ ~OverlapsOther(taskId, startTime)
          /\ OutsideHours(taskId, startTime) )
        => \A row \in Rows :
               LET effect == dropTaskToTimeline(taskId, row, startTime)
               IN  /\ effect.alerts = <<OutOfHoursMessage>>
                   /\ effect.tasks = tasks

\* the out-of-hours message is on display and some conflict-free drop starts
\* inside the working hours and ends after them
C4_Witness ==
    /\ RejectedAsOutOfHours
    /\ called = <<"findTaskById", "checkTaskConflicts", "isWithinWorkingHours">>
    /\ \E taskId \in TaskIds, startTime \in DropTimes :
           /\ Exists(taskId)
           /\ ~OverlapsOther(taskId, startTime)
           /\ CandStart(startTime) >= WorkStart
           /\ CandEnd(taskId, startTime) > WorkEnd

----------------------------------------------------------------------------
\* list is  before  with the position of the tasks of taskId set, and
\* nothing else changed
OnlyPositionSet(before, list, taskId, row, startTime) ==
    /\ Len(list) = Len(before)
    /\ \A i \in 1..Len(before) :
           /\ list[i].id = before[i].id
           /\ list[i].name = before[i].name
           /\ list[i].duration = before[i].duration
           /\ list[i].position =
                  IF before[i].id = taskId
                      THEN [row |-> row, startTime |-> startTime]
                      ELSE before[i].position

(* C5: an accepted drop (the task exists, no conflict, within working hours) *)
(* sets the position of that task to (row, startTime) and changes nothing    *)
(* else: ids, names, durations, the other tasks, the length and the order    *)
(* of the list stay.  placeTaskOnTimeline itself does so for every existing  *)
(* id, row and start time, conflicting or outside working hours or not, and  *)
(* also for a task that already has a position.                              *)
C5_AcceptedDropSetsOnlyPosition ==
    \A taskId \in TaskIds, row \in Rows, startTime \in DropTimes :
        Exists(taskId) =>
            /\ OnlyPositionSet(tasks, placeTaskOnTimeline(tasks, taskId, row, startTime),
                               taskId, row, startTime)
            /\ (~OverlapsOther(taskId, startTime) /\ ~OutsideHours(taskId, startTime))
               => LET effect == dropTaskToTimeline(taskId, row, startTime)
                  IN  /\ OnlyPositionSet(tasks, effect.tasks, taskId, row, startTime)
                      /\ effect.alerts = <<>>

\* a drop was accepted; both tasks are placed and a move of one of them to
\* another slot would be accepted too
C5_Witness ==
    /\ Accepted
    /\ \E i, j \in Indices :
           /\ tasks[i].id # tasks[j].id
           /\ Placed(tasks[i]) /\ Placed(tasks[j])
           /\ \E row \in Rows, startTime \in DropTimes :
                  /\ startTime # tasks[i].position.startTime
                  /\ ~OverlapsOther(tasks[i].id, startTime)
                  /\ ~OutsideHours(tasks[i].id, startTime)

----------------------------------------------------------------------------
(* C6: without updateTask and with the working hours fixed, every placed     *)
(* task starts at or after workingStart and ends at or before workingEnd.    *)
C6_PlacedTasksWithinWorkingHours ==
    \A i \in Indices :
        Placed(tasks[i]) =>
            /\ WorkStart <= StartOf(tasks[i])
            /\ EndOf(tasks[i]) <= WorkEnd

\* accepted drops filled the working hours from the first to the last minute
C6_Witness ==
    /\ Accepted
    /\ \E i, j \in Indices :
           /\ Placed(tasks[i]) /\ Placed(tasks[j])
           /\ StartOf(tasks[i]) = WorkStart
           /\ EndOf(tasks[j]) = WorkEnd

----------------------------------------------------------------------------
(* C7: updateTask runs no check: for every task object the settings panel    *)
(* passes, it replaces the tasks of that id by the object, raises no alert   *)
(* and evaluates neither checkTaskConflicts nor isWithinWorkingHours.  (The  *)
(* witness is the state the claim calls reachable: two placed tasks overlap  *)
(* and a placed task ends after the working hours.)                          *)
C7_UpdateTaskRunsNoCheck ==
    \A updatedTask \in UpdatedTasks :
        LET effect == updateTask(updatedTask)
        IN  /\ effect.alerts = <<>>
            /\ effect.called = <<"updateTaskInList">>
            /\ Len(effect.tasks) = Len(tasks)
            /\ \A i \in Indices :
                   effect.tasks[i] =
                       IF tasks[i].id = updatedTask.id THEN updatedTask ELSE tasks[i]

C7_Witness ==
    /\ called = <<"updateTaskInList">>
    /\ IdsDistinct
    /\ \E i, j \in Indices :
           /\ i # j
           /\ Placed(tasks[i]) /\ Placed(tasks[j])
           /\ Overlap(StartOf(tasks[i]), EndOf(tasks[i]),
                      StartOf(tasks[j]), EndOf(tasks[j]))
    /\ \E i \in Indices :
           Placed(tasks[i]) /\ EndOf(tasks[i]) > WorkEnd

----------------------------------------------------------------------------
\* the tasks a conflict result lists, in the order of the result
Reported(result) ==
    [k \in 1..Len(result.conflictingTasks) |-> result.conflictingTasks[k].task]

(* C8: for every candidate (id, row, start, duration), checkTaskConflicts    *)
(* lists exactly the tasks T of the list that are placed, have another id    *)
(* and satisfy NOT (candidateEnd <= T.start OR candidateStart >= T.end), in  *)
(* list order and whatever the rows; a task whose interval only touches the  *)
(* candidate's at an endpoint is not listed; hasConflict is true exactly     *)
(* when a task is listed.                                                    *)
C8_ConflictsAreExactlyTimeOverlaps ==
    \A taskId \in CandidateIds, startTime \in DropTimes, duration \in Durations :
        LET candidateStart == MinutesOf[startTime]
            candidateEnd == candidateStart + duration * 15
            conflicting(T) ==
                /\ Placed(T)
                /\ T.id # taskId
                /\ ~(candidateEnd <= StartOf(T) \/ candidateStart >= EndOf(T))
            touching(T) ==
                Placed(T) /\ (candidateEnd = StartOf(T) \/ candidateStart = EndOf(T))
        IN  \A row \in Rows :
                LET result == checkTaskConflicts(tasks, taskId, row, startTime, duration)
                IN  /\ Reported(result) = SelectSeq(tasks, conflicting)
                    /\ \A k \in 1..Len(result.conflictingTasks) :
                           ~touching(result.conflictingTasks[k].task)
                    /\ result.hasConflict = (\E i \in Indices : conflicting(tasks[i]))

\* a conflict was reported to the user; in this state one candidate overlaps
\* two placed tasks in two rows, and another one touches a placed task at an
\* endpoint and is reported free
C8_Witness ==
    /\ RejectedAsConflict
    /\ \E taskId \in CandidateIds, row \in Rows, startTime \in DropTimes,
          duration \in Durations :
           LET result == checkTaskConflicts(tasks, taskId, row, startTime, duration)
           IN  /\ Len(result.conflictingTasks) = 2
               /\ result.conflictingTasks[1].task.position.row
                      # result.conflictingTasks[2].task.position.row
    /\ \E taskId \in CandidateIds, row \in Rows, startTime \in DropTimes,
          duration \in Durations, i \in Indices :
           /\ Placed(tasks[i])
           /\ tasks[i].id # taskId
           /\ MinutesOf[startTime] = EndOf(tasks[i])
           /\ ~checkTaskConflicts(tasks, taskId, row, startTime, duration).hasConflict

----------------------------------------------------------------------------
(* C9: checkTaskConflicts never lists a task whose id is the candidate id;   *)
(* so a drop of a placed task on a slot whose interval overlaps its own      *)
(* current interval (its exact slot included) and the interval of no task    *)
(* of another id is never rejected as a conflict.                            *)
C9_SelfExclusion ==
    /\ \A taskId \in CandidateIds, row \in Rows, startTime \in DropTimes,
          duration \in Durations :
           LET result == checkTaskConflicts(tasks, taskId, row, startTime, duration)
           IN  \A k \in 1..Len(result.conflictingTasks) :
                   result.conflictingTasks[k].task.id # taskId
    /\ \A i \in Indices, startTime \in DropTimes :
           ( /\ Placed(tasks[i])
             /\ Overlap(CandStart(startTime),
                        CandStart(startTime) + tasks[i].duration * 15,
                        StartOf(tasks[i]), EndOf(tasks[i]))
             /\ ~OverlapsOther(tasks[i].id, startTime) )
           => \A row \in Rows :
                  LET effect == dropTaskToTimeline(tasks[i].id, row, startTime)
                  IN  /\ \A k \in 1..Len(effect.alerts) :
                             ~IsConflictMessage(effect.alerts[k])
                      /\ ~NotEvaluated(effect, "isWithinWorkingHours")

\* a placed task was dropped and accepted; dropped on its own slot it is
\* accepted again, while the other task dropped on that slot is rejected
C9_Witness ==
    /\ Accepted
    /\ \E i, j \in Indices :
           /\ Placed(tasks[i])
           /\ tasks[j].id # tasks[i].id
           /\ LET own == tasks[i].position
                  again == dropTaskToTimeline(tasks[i].id, own.row, own.startTime)
                  other == dropTaskToTimeline(tasks[j].id, own.row, own.startTime)
              IN  /\ again.tasks = tasks
                  /\ again.called = called
                  /\ Len(other.alerts) = 1
                  /\ IsConflictMessage(other.alerts[1])

----------------------------------------------------------------------------
(* C10: every listed task carries exactly one overlap shape, decided in      *)
(* this order: candidate starts before and ends after the task: containing;  *)
(* else candidate starts at or after and ends at or before: contained; else  *)
(* candidate starts before: front; else candidate ends after: back; else     *)
(* partial.                                                                  *)
C10_OverlapShapePrecedence ==
    \A taskId \in CandidateIds, row \in Rows, startTime \in DropTimes,
       duration \in Durations :
        LET candidateStart == MinutesOf[startTime]
            candidateEnd == candidateStart + duration * 15
            result == checkTaskConflicts(tasks, taskId, row, startTime, duration)
        IN  \A k \in 1..Len(result.conflictingTasks) :
                LET c == result.conflictingTasks[k]
                    containing ==
                        candidateStart < StartOf(c.task) /\ candidateEnd > EndOf(c.task)
                    contained ==
                        candidateStart >= StartOf(c.task) /\ candidateEnd <= EndOf(c.task)
                    front == candidateStart < StartOf(c.task)
                    back == candidateEnd > EndOf(c.task)
                IN  /\ containing => c.overlapType = <<"containing">>
                    /\ (~containing /\ contained) => c.overlapType = <<"contained">>
                    /\ (~containing /\ ~contained /\ front)
                           => c.overlapType = <<"front">>
                    /\ (~containing /\ ~contained /\ ~front /\ back)
                           => c.overlapType = <<"back">>
                    /\ (~containing /\ ~contained /\ ~front /\ ~back)
                           => c.overlapType = <<"partial">>

ShapeReported(shape) ==
    \E taskId \in CandidateIds, row \in Rows, startTime \in DropTimes,
       duration \in Durations :
        LET result == checkTaskConflicts(tasks, taskId, row, startTime, duration)
        IN  \E k \in 1..Len(result.conflictingTasks) :
                result.conflictingTasks[k].overlapType = shape

\* a conflict was reported to the user, and the candidates of this state
\* meet a placed task in each of the four shapes
C10_Witness ==
    /\ RejectedAsConflict
    /\ ShapeReported(<<"containing">>)
    /\ ShapeReported(<<"contained">>)
    /\ ShapeReported(<<"front">>)
    /\ ShapeReported(<<"back">>)

----------------------------------------------------------------------------
\* the candidate (taskId, row, startTime, duration) has the interval of the
\* placed task at index i and is checked for another row
IdenticalIntervalOtherRow(taskId, row, startTime, duration, i) ==
    /\ Placed(tasks[i])
    /\ tasks[i].id # taskId
    /\ tasks[i].position.row # row
    /\ tasks[i].position.startTime = startTime
    /\ tasks[i].duration = duration

\* what C11 says of such a candidate, with the overlap shapes it allows
IdenticalIntervalReported(shapes) ==
    \A taskId \in CandidateIds, row \in Rows, startTime \in DropTimes,
       duration \in Durations, i \in Indices :
        IdenticalIntervalOtherRow(taskId, row, startTime, duration, i)
        => LET result == checkTaskConflicts(tasks, taskId, row, startTime, duration)
               T == tasks[i]
           IN  /\ result.hasConflict
               /\ \A k \in 1..Len(result.conflictingTasks) :
                      result.conflictingTasks[k].task = T
                      => /\ result.conflictingTasks[k].conflictType =
                                <<"other-row (row ">> \o toString(T.position.row + 1)
                                    \o <<")">>
                         /\ result.conflictingTasks[k].overlapType \in shapes
               /\ (IdsDistinct /\ \A j \in Indices :
                                      (j # i /\ tasks[j].id # taskId) => ~Placed(tasks[j]))
                  => Len(result.conflictingTasks) = 1
               /\ (Exists(taskId) /\ findTaskById(tasks, taskId).duration = duration)
                  => LET effect == dropTaskToTimeline(taskId, row, startTime)
                     IN  /\ Len(effect.alerts) = 1
                         /\ IsConflictMessage(effect.alerts[1])
                         /\ effect.tasks = tasks

(* C11 as stated: a candidate with the interval of a placed task of another  *)
(* row is reported once, as a different-row conflict of shape complete or    *)
(* containing, and the drop is rejected with the list unchanged.             *)
C11_IdenticalIntervalCompleteOrContaining ==
    IdenticalIntervalReported({ <<"complete">>, <<"containing">> })

(* C11, amended: a candidate with the interval (same start, same duration)   *)
(* of a placed task of another id in another row is reported as a conflict   *)
(* with that task, with row relationship "other row (row N)" and overlap     *)
(* shape contained; it is the only entry when no other task of another id    *)
(* is placed; the drop is rejected with the conflict message and the list    *)
(* (the first task's position included) unchanged.                          *)
C11_IdenticalIntervalContained ==
    IdenticalIntervalReported({ <<"contained">> })

\* a drop on the interval of a placed task, in another row, was just rejected
C11_Witness ==
    /\ RejectedAsConflict
    /\ \E taskId \in TaskIds, row \in Rows, i \in Indices :
           /\ Exists(taskId)
           /\ IdenticalIntervalOtherRow(taskId, row, tasks[i].position.startTime,
                                        findTaskById(tasks, taskId).duration, i)
           /\ dropTaskToTimeline(taskId, row, tasks[i].position.startTime).alerts = alerts
           /\ Len(checkTaskConflicts(tasks, taskId, row, tasks[i].position.startTime,
                                     tasks[i].duration).conflictingTasks) = 1

----------------------------------------------------------------------------
(* C12: an operation addressed to an id that is not in the list does         *)
(* nothing: updateTaskInList, deleteTaskFromList, placeTaskOnTimeline and    *)
(* returnTaskToPool return a list equal to the one they were given, and      *)
(* dropTaskToTimeline leaves the list and the selection as they are, raises  *)
(* no alert and evaluates neither checkTaskConflicts nor                     *)
(* isWithinWorkingHours.                                                     *)
C12_UnknownIdIsNoOp ==
    /\ \A updatedTask \in UpdatedTasks :
           ~Exists(updatedTask.id) => updateTaskInList(tasks, updatedTask) = tasks
    /\ \A taskId \in CandidateIds :
           ~Exists(taskId) =>
               /\ deleteTaskFromList(tasks, taskId) = tasks
               /\ returnTaskToPool(tasks, taskId) = tasks
               /\ \A row \in Rows, startTime \in DropTimes :
                      /\ placeTaskOnTimeline(tasks, taskId, row, startTime) = tasks
                      /\ LET effect == dropTaskToTimeline(taskId, row, startTime)
                         IN  /\ effect.tasks = tasks
                             /\ effect.selectedTaskId = selectedTaskId
                             /\ effect.alerts = <<>>
                             /\ NotEvaluated(effect, "checkTaskConflicts")
                             /\ NotEvaluated(effect, "isWithinWorkingHours")
                             /\ NotEvaluated(effect, "placeTaskOnTimeline")

\* a drop addressed to an unknown id has just returned; the list holds a
\* placed task and a task in the pool, and a task is selected
C12_Witness ==
    /\ called = <<"findTaskById">>
    /\ selectedTaskId # null
    /\ \E taskId \in TaskIds : ~Exists(taskId)
    /\ \E i \in Indices : Placed(tasks[i])
    /\ \E updatedTask \in UpdatedTasks : ~Exists(updatedTask.id)

----------------------------------------------------------------------------
(* C13: dropTaskToPool always succeeds: for every id it raises no alert and  *)
(* evaluates only returnTaskToPool (no conflict check, no working-hours      *)
(* check); the tasks of that id get position null and everything else, the   *)
(* other tasks, the length, the order and the selection, stays; and          *)
(* returnTaskToPool applied twice with one id gives the list it gives when   *)
(* applied once.                                                             *)
C13_ReturnToPoolUncheckedIdempotent ==
    \A taskId \in CandidateIds :
        LET effect == dropTaskToPool(taskId)
            once == returnTaskToPool(tasks, taskId)
        IN  /\ effect.alerts = <<>>
            /\ effect.called = <<"returnTaskToPool">>
            /\ effect.selectedTaskId = selectedTaskId
            /\ effect.tasks = once
            /\ Len(once) = Len(tasks)
            /\ \A i \in Indices :
                   once[i] = IF tasks[i].id = taskId
                                 THEN [ id |-> tasks[i].id, name |-> tasks[i].name,
                                        duration |-> tasks[i].duration,
                                        position |-> null ]
                                 ELSE tasks[i]
            /\ returnTaskToPool(once, taskId) = once

\* a task has just been returned to the pool while another one stays placed;
\* returning the task in the pool again and returning the placed one are
\* both on offer
C13_Witness ==
    /\ called = <<"returnTaskToPool">>
    /\ \E i, j \in Indices :
           /\ tasks[i].id # tasks[j].id
           /\ ~Placed(tasks[i])
           /\ Placed(tasks[j])
           /\ dropTaskToPool(tasks[i].id).tasks = tasks
           /\ dropTaskToPool(tasks[j].id).tasks # tasks

----------------------------------------------------------------------------
\* sub is list with some elements left out, the others in their order
IsSubsequence(sub, list) ==
    \E at \in [1..Len(sub) -> 1..Len(list)] :
        /\ \A k \in 1..Len(sub) : list[at[k]] = sub[k]
        /\ \A k, l \in 1..Len(sub) : k < l => at[k] < at[l]

(* C14: in every reachable state getPoolTasks and getTimelineTasks           *)
(* partition the task list: every task of the list is in exactly one of the  *)
(* two results, the two lengths add up to the length of the list, each       *)
(* result keeps the order of the list, and no id occurs in both results.     *)
C14_PoolAndTimelinePartition ==
    LET pool == getPoolTasks(tasks)
        timeline == getTimelineTasks(tasks)
        inPool(t) == \E k \in 1..Len(pool) : pool[k] = t
        inTimeline(t) == \E k \in 1..Len(timeline) : timeline[k] = t
    IN  /\ \A i \in Indices : inPool(tasks[i]) # inTimeline(tasks[i])
        /\ Len(pool) + Len(timeline) = Len(tasks)
        /\ IsSubsequence(pool, tasks)
        /\ IsSubsequence(timeline, tasks)
        /\ \A k \in 1..Len(pool), l \in 1..Len(timeline) : pool[k].id # timeline[l].id

\* the same while the ids of the list are pairwise distinct
C14_PartitionWhileIdsDistinct ==
    IdsDistinct => C14_PoolAndTimelinePartition

----------------------------------------------------------------------------
(* C15: in every reachable state the ids of the tasks in the list are        *)
(* pairwise distinct, whatever clock values the createTask calls read.       *)
C15_TaskIdsUnique == IdsDistinct

----------------------------------------------------------------------------
\* the ids of a list, index by index
IdsOf(list) == [i \in 1..Len(list) |-> list[i].id]

(* C16: the sequence of ids of the list changes only through createTask,     *)
(* which appends the id of the one task it creates at the end, and through   *)
(* deleteTask, which removes the entries of the given id and keeps the       *)
(* others in order; updateTask, dropTaskToTimeline, dropTaskToPool and       *)
(* selectTask keep the length of the list, its order and the id at every     *)
(* index, so that the id of a task never changes while it is in the list.    *)
C16_IdsOnlyChangeByCreateAndDelete ==
    LET ids == IdsOf(tasks)
    IN  /\ \A updatedTask \in UpdatedTasks :
               IdsOf(updateTask(updatedTask).tasks) = ids
        /\ \A taskId \in CandidateIds :
               /\ IdsOf(dropTaskToPool(taskId).tasks) = ids
               /\ IdsOf(selectTask(taskId).tasks) = ids
               /\ \A row \in Rows, startTime \in DropTimes :
                      IdsOf(dropTaskToTimeline(taskId, row, startTime).tasks) = ids
               /\ LET kept(id) == id # taskId
                  IN  IdsOf(deleteTask(taskId).tasks) = SelectSeq(ids, kept)
        /\ IdsOf(createTask.tasks) = ids \o <<createNewTask(tasks, now).id>>
        /\ Len(createTask.tasks) = Len(tasks) + 1

\* a drop of the first of two tasks was just accepted: the placed task is
\* still first, the task in the pool still second
C16_Witness ==
    /\ Accepted
    /\ Len(tasks) = 2
    /\ tasks[1].id # tasks[2].id
    /\ Placed(tasks[1])
    /\ ~Placed(tasks[2])
    /\ \E updatedTask \in UpdatedTasks : updatedTask.id = tasks[1].id

----------------------------------------------------------------------------
\* dropTaskToTimeline applied to a list: the list it asks React to render
DropApplied(list, taskId, row, startTime) ==
    LET task == findTaskById(list, taskId)
    IN  IF task = null THEN list
        ELSE IF checkTaskConflicts(list, taskId, row, startTime,
                                   task.duration).hasConflict THEN list
        ELSE IF ~isWithinWorkingHours(startTime, task.duration,
                                      workingStart, workingEnd) THEN list
        ELSE placeTaskOnTimeline(list, taskId, row, startTime)

(* C17: the mutation requests are serialized: every call, with or without a  *)
(* render since the call before it, computes the new list from the list the  *)
(* previously issued call left (pendingTasks), so that no earlier call's     *)
(* effect is lost; in particular every createTask call makes the list one    *)
(* task longer.                                                              *)
C17_CallsAreSerialized ==
    [][ /\ CallCreateTask
            => /\ pendingTasks' = pendingTasks \o <<createNewTask(pendingTasks, now)>>
               /\ Len(pendingTasks') = Len(pendingTasks) + 1
        /\ \A updatedTask \in ResizedTasks :
               CallUpdateTask(updatedTask)
               => pendingTasks' = updateTaskInList(pendingTasks, updatedTask)
        /\ \A taskId \in TaskIds :
               /\ CallDeleteTask(taskId)
                  => pendingTasks' = deleteTaskFromList(pendingTasks, taskId)
               /\ CallDropTaskToPool(taskId)
                  => pendingTasks' = returnTaskToPool(pendingTasks, taskId)
               /\ \A row \in Rows, startTime \in DropTimes :
                      CallDropTaskToTimeline(taskId, row, startTime)
                      => pendingTasks' = DropApplied(pendingTasks, taskId, row, startTime)
      ]_vars

----------------------------------------------------------------------------
(* C18: createTask appends exactly one task at the end of the list and       *)
(* leaves the tasks before it as they are; the new task is in the pool       *)
(* (position null), has duration 2, and its name is the fixed prefix         *)
(* followed by the decimal numeral of n + 1, n being the number of tasks of  *)
(* the list at the call, pool and timeline together.                         *)
C18_CreateTaskAppendsDefaultTask ==
    LET effect == createTask
        n == Len(getPoolTasks(tasks)) + Len(getTimelineTasks(tasks))
        newTask == effect.tasks[Len(effect.tasks)]
    IN  /\ Len(effect.tasks) = Len(tasks) + 1
        /\ \A i \in Indices : effect.tasks[i] = tasks[i]
        /\ newTask.position = null
        /\ newTask.duration = 2
        /\ Head(newTask.name) = "Task "
        /\ Number(Tail(newTask.name)) = n + 1
        /\ n = Len(tasks)
        /\ effect.alerts = <<>>
        /\ effect.selectedTaskId = selectedTaskId

\* a second task was just created while the first one is on the timeline
C18_Witness ==
    /\ called = <<"createNewTask">>
    /\ Len(tasks) = 2
    /\ Placed(tasks[1])
    /\ tasks[1].duration # 2
    /\ tasks[2] = [ id |-> <<"task-", "2">>, name |-> <<"Task ", "2">>,
                    duration |-> 2, position |-> null ]

----------------------------------------------------------------------------
(* C19: deleteTask(id) removes every task whose id is id and keeps the       *)
(* other tasks, unchanged and in their order; after the call no task is      *)
(* selected, whether the deleted id was the selected one or not and whether  *)
(* it was in the list or not.                                                *)
C19_DeleteRemovesAndClearsSelection ==
    \A taskId \in CandidateIds :
        LET effect == deleteTask(taskId)
            others == { i \in Indices : tasks[i].id # taskId }
        IN  /\ \A k \in 1..Len(effect.tasks) : effect.tasks[k].id # taskId
            /\ Len(effect.tasks) = Cardinality(others)
            /\ IsSubsequence(effect.tasks, tasks)
            /\ \A i \in others : \E k \in 1..Len(effect.tasks) : effect.tasks[k] = tasks[i]
            /\ effect.selectedTaskId = null
            /\ effect.alerts = <<>>

\* a task was just deleted and nothing is selected; the other task is still
\* there, on the timeline
C19_Witness ==
    /\ called = <<"deleteTaskFromList">>
    /\ selectedTaskId = null
    /\ Len(tasks) = 1
    /\ Placed(tasks[1])

----------------------------------------------------------------------------
\* the keys of a Map
Keys(map) == { map[e].key : e \in 1..Len(map) }

\* the task is placed and the label is its start plus 15 * k minutes for
\* some 0 <= k < duration
OccupiesLabel(task, label) ==
    /\ task.position # null
    /\ \E k \in 0..(task.duration - 1) :
           timeToMinutes(label) = timeToMinutes(task.position.startTime) + 15 * k

(* C20: the Map createTimeSlotTaskMap returns has one entry per label, and   *)
(* the entry of a label holds exactly the tasks that are placed and for      *)
(* which the label is start + 15 * k for some 0 <= k < duration, in the      *)
(* order of the task list; so a placed task of duration d is under exactly   *)
(* d distinct labels, also when its interval runs past 24:00, a task in the  *)
(* pool is under none, and no entry is empty.                                *)
C20_SlotMapHoldsExactlyCoveringTasks ==
    called = <<"createTimeSlotTaskMap">> =>
        /\ Cardinality(Keys(timeSlotTaskMap)) = Len(timeSlotTaskMap)
        /\ \A label \in Keys(timeSlotTaskMap) :
               LET occupies(task) == OccupiesLabel(task, label)
               IN  /\ mapGet(timeSlotTaskMap, label) = SelectSeq(tasks, occupies)
                   /\ mapGet(timeSlotTaskMap, label) # <<>>
        /\ \A i \in Indices :
               LET under == { label \in Keys(timeSlotTaskMap) :
                                 \E k \in 1..Len(mapGet(timeSlotTaskMap, label)) :
                                     mapGet(timeSlotTaskMap, label)[k] = tasks[i] }
               IN  Cardinality(under) =
                       IF tasks[i].position = null THEN 0 ELSE tasks[i].duration

\* the map of a list of two placed tasks: the first starts at 23:45 and is
\* under three labels, the last of them 24:15, where the second task, which
\* starts at 23:30, is not; at 23:45 both are, in list order
C20_Witness ==
    /\ called = <<"createTimeSlotTaskMap">>
    /\ Len(tasks) = 2
    /\ tasks[1].id # tasks[2].id
    /\ tasks[1].position # null /\ tasks[2].position # null
    /\ tasks[1].position.startTime = <<"2", "3", ":", "4", "5">>
    /\ tasks[1].duration = 3
    /\ tasks[2].position.startTime = <<"2", "3", ":", "3", "0">>
    /\ mapHas(timeSlotTaskMap, <<"2", "4", ":", "1", "5">>)
    /\ mapGet(timeSlotTaskMap, <<"2", "4", ":", "1", "5">>) = <<tasks[1]>>
    /\ mapGet(timeSlotTaskMap, <<"2", "3", ":", "4", "5">>) = <<tasks[1], tasks[2]>>

----------------------------------------------------------------------------
\* the interval of a placed task of any list, in minutes
StartMin(task) == timeToMinutes(task.position.startTime)
EndMin(task) == StartMin(task) + task.duration * 15

\* the conflict result lists the task
Lists(result, task) ==
    \E k \in 1..Len(result.conflictingTasks) : result.conflictingTasks[k].task = task

\* timeToMinutes on the slot labels asked about, tabulated
SlotMinutes == [label \in AnySlots |-> timeToMinutes(label)]

\* the indices of the placed tasks of duration 0
ZeroDurationPlaced == { i \in Indices : tasks[i].position # null /\ tasks[i].duration = 0 }

\* a placed task of duration 0 is in no entry of the slot map, in no result
\* of getTasksInTimeSlot and is never the task getTaskAtPosition finds
ZeroDurationOccupiesNoSlot ==
    /\ \A e \in 1..Len(timeSlotTaskMap) :
           \A k \in 1..Len(timeSlotTaskMap[e].value) :
               timeSlotTaskMap[e].value[k].duration # 0
    /\ ZeroDurationPlaced # {}
       => \A timeSlot \in AnySlots :
              LET inSlot == getTasksInTimeSlot(tasks, timeSlot)
              IN  /\ \A k \in 1..Len(inSlot) : inSlot[k].duration # 0
                  /\ \A row \in Rows :
                         LET found == getTaskAtPosition(tasks, row, timeSlot)
                         IN  found # null => found.duration # 0

(* C21 as stated, for a list whose slot map was built: a placed task of      *)
(* duration 0 occupies no slot, is never listed by checkTaskConflicts, and   *)
(* a candidate of duration 0 conflicts with no placed task.                  *)
C21_ZeroDurationNeverConflicts ==
    called = <<"createTimeSlotTaskMap">> =>
    /\ ZeroDurationOccupiesNoSlot
    /\ \A taskId \in CandidateIds, row \in Rows, startTime \in AnySlots,
          duration \in 0..MaxDuration :
           LET result == checkTaskConflicts(tasks, taskId, row, startTime, duration)
           IN  /\ duration = 0 => ~result.hasConflict
               /\ \A k \in 1..Len(result.conflictingTasks) :
                      result.conflictingTasks[k].task.duration # 0

(* C21, amended, for a list whose slot map was built: a placed task of       *)
(* duration 0 occupies no slot (it is in no                                  *)
(* entry of the slot map, in no result of getTasksInTimeSlot, and never the  *)
(* task getTaskAtPosition finds); checkTaskConflicts lists it for a          *)
(* candidate of another id exactly when its start lies strictly inside the   *)
(* candidate's interval, and a candidate of duration 0 conflicts with        *)
(* exactly the placed tasks of another id whose interval holds the           *)
(* candidate's start strictly inside.                                        *)
C21_ZeroDurationConflictsOnlyStrictlyInside ==
    called = <<"createTimeSlotTaskMap">> =>
    /\ ZeroDurationOccupiesNoSlot
    /\ \A taskId \in CandidateIds, row \in Rows, startTime \in AnySlots,
          duration \in 0..MaxDuration :
           LET candidateStart == SlotMinutes[startTime]
               candidateEnd == candidateStart + duration * 15
               result == checkTaskConflicts(tasks, taskId, row, startTime, duration)
               strictlyInside(task) ==
                   /\ task.position # null
                   /\ task.id # taskId
                   /\ IF task.duration = 0
                          THEN candidateStart < StartMin(task)
                               /\ StartMin(task) < candidateEnd
                          ELSE StartMin(task) < candidateStart
                               /\ candidateStart < EndMin(task)
               concerned(task) == duration = 0 \/ task.duration = 0
               listed(c) == concerned(c.task)
               expected(task) == concerned(task) /\ strictlyInside(task)
           IN  Reported([ conflictingTasks |-> SelectSeq(result.conflictingTasks, listed) ])
                   = SelectSeq(tasks, expected)

\* the slot map of a list of two placed tasks was built: the second has
\* duration 0 and starts at 09:15, inside the first (09:00, duration 2);
\* the entry of 09:15 holds the first task only, and the first task checked
\* on its own slot is in conflict with the second
C21_Witness ==
    /\ called = <<"createTimeSlotTaskMap">>
    /\ Len(tasks) = 2
    /\ tasks[1].id # tasks[2].id
    /\ tasks[1].position # null /\ tasks[2].position # null
    /\ tasks[1].position.startTime = <<"0", "9", ":", "0", "0">>
    /\ tasks[1].duration = 2
    /\ tasks[2].position.startTime = <<"0", "9", ":", "1", "5">>
    /\ tasks[2].duration = 0
    /\ mapGet(timeSlotTaskMap, <<"0", "9", ":", "1", "5">>) = <<tasks[1]>>
    /\ Lists(checkTaskConflicts(tasks, tasks[1].id, tasks[1].position.row,
                                tasks[1].position.startTime, tasks[1].duration),
             tasks[2])

----------------------------------------------------------------------------
\* the grid the Timeline draws for the list, and the labels of its columns
Grid == Timeline(tasks, workingStart, workingEnd)
GridSlots == generateTimeSlots(workingStart, workingEnd)
Columns == 1..Len(GridSlots)

\* the cells where the card of the task is drawn
CardCells(task) ==
    { cell \in Rows \X Columns : Grid[cell[1]][cell[2]].card = task }

\* the columns of the other cells the interval of a placed task covers
OtherCoveredColumns(task) ==
    { k \in Columns :
        /\ GridSlots[k] # task.position.startTime
        /\ StartMin(task) <= timeToMinutes(GridSlots[k])
        /\ timeToMinutes(GridSlots[k]) < EndMin(task) }

\* the card of a task is drawn in no cell if it is in the pool and else in
\* at most one, the cell of its row and start label
CardOnlyAtStart ==
    \A i \in Indices :
        IF tasks[i].position = null
            THEN CardCells(tasks[i]) = {}
            ELSE /\ Cardinality(CardCells(tasks[i])) <= 1
                 /\ \A cell \in CardCells(tasks[i]) :
                        /\ cell[1] = tasks[i].position.row
                        /\ GridSlots[cell[2]] = tasks[i].position.startTime

(* C22 as stated, for the grid of a list whose slot map was built: the card  *)
(* of a placed task is drawn in at most one cell, the cell of its row whose  *)
(* label equals its startTime; every other cell its interval covers in that  *)
(* row is occupied and holds no card; a pool task is drawn in no cell.       *)
C22_OtherCoveredCellsHoldNoCard ==
    called = <<"createTimeSlotTaskMap">> =>
    /\ CardOnlyAtStart
    /\ \A i \in Indices :
           tasks[i].position # null =>
               \A k \in OtherCoveredColumns(tasks[i]) :
                   /\ Grid[tasks[i].position.row][k].occupied
                   /\ Grid[tasks[i].position.row][k].card = null

(* C22, amended, for the grid of a list whose slot map was built: the card   *)
(* of a placed task is drawn in at most one cell, the cell of its row whose  *)
(* label equals its startTime; every other cell its interval covers in that  *)
(* row is occupied and does not hold its card: the cell holds no card, or    *)
(* the card of a task of that row that starts at the cell's label and comes  *)
(* earlier in the list; a pool task is drawn in no cell.                     *)
C22_OtherCoveredCellsHoldNoCardOfTheTask ==
    called = <<"createTimeSlotTaskMap">> =>
    /\ CardOnlyAtStart
    /\ \A i \in Indices :
           tasks[i].position # null =>
               \A k \in OtherCoveredColumns(tasks[i]) :
                   LET cell == Grid[tasks[i].position.row][k]
                   IN  /\ cell.occupied
                       /\ cell.card # tasks[i]
                       /\ cell.card # null =>
                              \E j \in 1..(i - 1) :
                                  /\ tasks[j] = cell.card
                                  /\ tasks[j].position.row = tasks[i].position.row
                                  /\ tasks[j].position.startTime = GridSlots[k]

\* the first task runs from 09:00 over three slots of row 0 and its card is
\* drawn in the cell of 09:00 only; the second starts inside it at 09:15,
\* in the same row, and its card is drawn nowhere
C22_Witness ==
    /\ called = <<"createTimeSlotTaskMap">>
    /\ Len(tasks) = 2
    /\ tasks[1].position # null /\ tasks[2].position # null
    /\ tasks[1].position.row = 0 /\ tasks[2].position.row = 0
    /\ tasks[1].position.startTime = <<"0", "9", ":", "0", "0">>
    /\ tasks[1].duration = 3
    /\ tasks[2].position.startTime = <<"0", "9", ":", "1", "5">>
    /\ tasks[2].duration = 1
    /\ CardCells(tasks[1]) = { <<0, 1>> }
    /\ CardCells(tasks[2]) = {}
    /\ OtherCoveredColumns(tasks[1]) = {2, 3}
    /\ Grid[0][2].occupied /\ Grid[0][3].occupied

----------------------------------------------------------------------------
\* the minutes since 00:00 a zero-padded HH:MM string stands for, digit by digit
Clock(s) ==
    (DigitValue(s[1]) * 10 + DigitValue(s[2])) * 60
        + DigitValue(s[4]) * 10 + DigitValue(s[5])

(* C23: isWithinWorkingHours returns true exactly when the start is not      *)
(* before the working start and start + duration * 15 minutes is not after   *)
(* the working end; so a task that starts at the working start or ends at    *)
(* the working end is accepted, one that ends 15 minutes after the working   *)
(* end is rejected, and with a working end before the working start every    *)
(* start and duration is rejected.                                           *)
C23_WithinWorkingHoursIffStartAndEndInside ==
    called = <<"isWithinWorkingHours">> =>
        LET start == Clock(callArgs.startTime)
            end == start + callArgs.duration * 15
            workStart == Clock(callArgs.workingStart)
            workEnd == Clock(callArgs.workingEnd)
        IN  /\ returned \in BOOLEAN
            /\ returned <=> (start >= workStart /\ end <= workEnd)
            /\ (start = workStart /\ end <= workEnd) => returned
            /\ (start >= workStart /\ end = workEnd) => returned
            /\ end = workEnd + 15 => ~returned
            /\ workEnd < workStart => ~returned

\* working hours 09:00 to 09:30 and a task of two units from 09:00: it
\* starts at the working start, ends at the working end and is accepted
C23_Witness ==
    /\ called = <<"isWithinWorkingHours">>
    /\ callArgs.workingStart = HHMM(9, 0)
    /\ callArgs.workingEnd = HHMM(9, 30)
    /\ callArgs.startTime = HHMM(9, 0)
    /\ callArgs.duration = 2
    /\ returned = TRUE

(* C24: generateTimeSlots(start, end) returns the labels of start + 15 * k   *)
(* minutes, k = 0, 1, ..., that are before end, in ascending order: none     *)
(* when start >= end, else ceil((end - start) / 15) of them, the first the   *)
(* label of start also when start is off the 15-minute grid, and never the   *)
(* label of end.                                                             *)
C24_SlotsAreStartPlusMultiplesBeforeEnd ==
    called = <<"generateTimeSlots">> =>
        LET start == Clock(callArgs.startTime)
            end == Clock(callArgs.endTime)
            length == IF start >= end THEN 0 ELSE (end - start + 14) \div 15
        IN  /\ Len(returned) = length
            /\ \A k \in 1..Len(returned) :
                   LET minutes == start + 15 * (k - 1)
                   IN  /\ returned[k] = HHMM(minutes \div 60, minutes % 60)
                       /\ minutes < end
            /\ start + 15 * Len(returned) >= end \/ Len(returned) = 0
            /\ \A k \in 1..Len(returned) : returned[k] # callArgs.endTime
            /\ \A j, k \in 1..Len(returned) :
                   j < k => Clock(returned[j]) < Clock(returned[k])

\* from 09:05 to 09:35: the labels 09:05 and 09:20, off the grid of 09:00
C24_Witness ==
    /\ called = <<"generateTimeSlots">>
    /\ callArgs.startTime = HHMM(9, 5)
    /\ callArgs.endTime = HHMM(9, 35)
    /\ returned = << HHMM(9, 5), HHMM(9, 20) >>

(* C25: for every minute m of a day, minutesToTime(m) is the zero-padded     *)
(* HH:MM string of m and timeToMinutes gives m back; for every zero-padded   *)
(* HH:MM string s of a day, timeToMinutes(s) is a minute of the day and      *)
(* minutesToTime gives s back.                                               *)
C25_TimeConversionsAreInverses ==
    /\ called = <<"minutesToTime">> =>
           /\ returned \in DayTimes
           /\ timeToMinutes(returned) = callArgs.minutes
    /\ called = <<"timeToMinutes">> =>
           /\ returned \in 0..(MINUTES_PER_DAY - 1)
           /\ returned = Clock(callArgs.timeStr)
           /\ minutesToTime(returned) = callArgs.timeStr

\* the last minute of the day, 1439, gives 23:59
C25_Witness ==
    /\ called = <<"minutesToTime">>
    /\ callArgs.minutes = MINUTES_PER_DAY - 1
    /\ returned = HHMM(23, 59)

----------------------------------------------------------------------------
\* the overlap shapes of a conflict result
Shapes(conflictResult) ==
    { conflictResult.conflictingTasks[k].overlapType :
          k \in 1..Len(conflictResult.conflictingTasks) }

(* C26: for every list, candidate id, row, start and duration, every overlap *)
(* that TaskService.checkTaskConflicts or App's checkAllRowsConflict reports *)
(* has the shape containing, contained, front or back: never partial, the    *)
(* final else branch, and never complete, the initial value.                 *)
C26_OverlapShapeIsOneOfFour ==
    called = <<"createTimeSlotTaskMap">> =>
        \A taskId \in CandidateIds, row \in Rows, startTime \in AnySlots,
           duration \in 0..MaxDuration :
            (Shapes(checkTaskConflicts(tasks, taskId, row, startTime, duration))
                 \cup Shapes(checkAllRowsConflict(tasks, taskId, row, startTime, duration)))
                \subseteq { <<"containing">>, <<"contained">>, <<"front">>, <<"back">> }

\* a list of two placed tasks of different ids with equal intervals: each,
\* checked as the candidate, is reported an overlap of shape contained with
\* the other
C26_Witness ==
    /\ called = <<"createTimeSlotTaskMap">>
    /\ Len(tasks) = 2
    /\ tasks[1].id # tasks[2].id
    /\ tasks[1].position # null /\ tasks[2].position # null
    /\ tasks[1].position.startTime = tasks[2].position.startTime
    /\ tasks[1].duration = 2 /\ tasks[2].duration = 2
    /\ Shapes(checkTaskConflicts(tasks, tasks[1].id, tasks[1].position.row,
                                 tasks[1].position.startTime, tasks[1].duration))
           = { <<"contained">> }
    /\ Shapes(checkAllRowsConflict(tasks, tasks[2].id, tasks[2].position.row,
                                   tasks[2].position.startTime, tasks[2].duration))
           = { <<"contained">> }

----------------------------------------------------------------------------
\* the labels under which the slot map holds the task
LabelsOf(task) ==
    { timeSlotTaskMap[e].key : e \in { e \in 1..Len(timeSlotTaskMap) :
          \E k \in 1..Len(timeSlotTaskMap[e].value) :
              timeSlotTaskMap[e].value[k] = task } }

\* the slot labels an interval of duration units from startTime covers
CoveredLabels(startTime, duration) ==
    { minutesToTime(SlotMinutes[startTime] + 15 * k) : k \in 0..(duration - 1) }

\* the placed tasks of the list have durations of 1 or more and start on the
\* 15-minute grid of startTime
OnOneGrid(startTime) ==
    \A i \in Indices :
        tasks[i].position # null =>
            /\ tasks[i].duration >= 1
            /\ StartMin(tasks[i]) % 15 = SlotMinutes[startTime] % 15

(* C27: for a list whose placed tasks have durations of 1 or more and a      *)
(* candidate of duration 1 or more, all starting on one 15-minute grid,      *)
(* checkTaskConflicts reports the placed task T exactly when T's id is not   *)
(* the candidate's and some slot label the candidate's interval covers is a  *)
(* label under which createTimeSlotTaskMap holds T.                          *)
C27_DetectorAgreesWithSlotMap ==
    called = <<"createTimeSlotTaskMap">> =>
        \A startTime \in AnySlots :
            OnOneGrid(startTime) =>
                \A taskId \in CandidateIds, row \in Rows, duration \in 1..MaxDuration :
                    LET conflictResult ==
                            checkTaskConflicts(tasks, taskId, row, startTime, duration)
                    IN  \A i \in Indices :
                            tasks[i].position # null =>
                                (Lists(conflictResult, tasks[i])
                                   <=> /\ taskId # tasks[i].id
                                       /\ CoveredLabels(startTime, duration)
                                              \cap LabelsOf(tasks[i]) # {})

\* the placed task runs from 23:45 over three slots, to 24:30; a candidate
\* of another id from 24:15 shares the label 24:15 with it and is reported
\* the conflict, a candidate from 23:30 of one unit shares none and is not
C27_Witness ==
    /\ called = <<"createTimeSlotTaskMap">>
    /\ Len(tasks) = 1
    /\ tasks[1].position # null
    /\ tasks[1].position.startTime = <<"2", "3", ":", "4", "5">>
    /\ tasks[1].duration = 3
    /\ tasks[1].id = <<"task-", "1">>
    /\ LabelsOf(tasks[1]) = { <<"2", "3", ":", "4", "5">>, <<"2", "4", ":", "0", "0">>,
                              <<"2", "4", ":", "1", "5">> }
    /\ Lists(checkTaskConflicts(tasks, <<"task-", "2">>, 0,
                                <<"2", "4", ":", "1", "5">>, 1), tasks[1])
    /\ ~Lists(checkTaskConflicts(tasks, <<"task-", "2">>, 0,
                                 <<"2", "3", ":", "3", "0">>, 1), tasks[1])

----------------------------------------------------------------------------
\* the placed tasks of the list start on the 15-minute grid of the label
StartsOnGridOf(timeSlot) ==
    \A i \in Indices :
        tasks[i].position # null =>
            StartMin(tasks[i]) % 15 = SlotMinutes[timeSlot] % 15

\* timeSlotTaskMap.get(timeSlot) || []
EntryOf(timeSlot) ==
    IF mapHas(timeSlotTaskMap, timeSlot) THEN mapGet(timeSlotTaskMap, timeSlot) ELSE <<>>

(* C28: for a list whose placed tasks start on the 15-minute grid of the     *)
(* slot label asked about, ConflictService.getTasksInTimeSlot returns the    *)
(* tasks of the createTimeSlotTaskMap entry of the label, in the same order, *)
(* and none when the map has no such entry; hasTimeSlotConflict is true      *)
(* exactly when the entry holds more than one task.                          *)
C28_SlotQueriesAgree ==
    called = <<"createTimeSlotTaskMap">> =>
        \A timeSlot \in AnySlots :
            StartsOnGridOf(timeSlot) =>
                /\ getTasksInTimeSlot(tasks, timeSlot) = EntryOf(timeSlot)
                /\ hasTimeSlotConflict(tasks, timeSlot) <=> Len(EntryOf(timeSlot)) > 1

\* two placed tasks from 09:00, in different rows, the first of two units
\* and the second of one: 09:00 holds both, in list order, and is in
\* conflict; 09:15 holds the first only and is not; 09:30 has no entry
C28_Witness ==
    /\ called = <<"createTimeSlotTaskMap">>
    /\ Len(tasks) = 2
    /\ tasks[1].position # null /\ tasks[2].position # null
    /\ tasks[1].position.row # tasks[2].position.row
    /\ tasks[1].position.startTime = <<"0", "9", ":", "0", "0">>
    /\ tasks[2].position.startTime = <<"0", "9", ":", "0", "0">>
    /\ tasks[1].duration = 2 /\ tasks[2].duration = 1
    /\ tasks[1] # tasks[2]
    /\ getTasksInTimeSlot(tasks, <<"0", "9", ":", "0", "0">>) = <<tasks[1], tasks[2]>>
    /\ hasTimeSlotConflict(tasks, <<"0", "9", ":", "0", "0">>)
    /\ getTasksInTimeSlot(tasks, <<"0", "9", ":", "1", "5">>) = <<tasks[1]>>
    /\ ~hasTimeSlotConflict(tasks, <<"0", "9", ":", "1", "5">>)
    /\ ~mapHas(timeSlotTaskMap, <<"0", "9", ":", "3", "0">>)
    /\ getTasksInTimeSlot(tasks, <<"0", "9", ":", "3", "0">>) = <<>>

----------------------------------------------------------------------------
(* C29: in every state, for every drop (id, row, startTime), App's inline    *)
(* handleTaskDropToTimeline and useTasks.dropTaskToTimeline have the same    *)
(* outcome: both do nothing, or both reject with the same conflict list,     *)
(* conflict types, overlap shapes and message, or both reject for the        *)
(* working hours, or both place the task; and they leave the same list.      *)
C29_InlineAndRefactoredDropAgree ==
    \A taskId \in CandidateIds, row \in Rows, startTime \in DropTimes :
        LET inline == handleTaskDropToTimeline(taskId, row, startTime)
            refactored == dropTaskToTimeline(taskId, row, startTime)
            task == findTaskById(tasks, taskId)
        IN  /\ inline.tasks = refactored.tasks
            /\ inline.alerts = refactored.alerts
            /\ inline.selectedTaskId = refactored.selectedTaskId
            /\ task # null =>
                   checkAllRowsConflict(tasks, taskId, row, startTime, task.duration)
                       = checkTaskConflicts(tasks, taskId, row, startTime, task.duration)

\* a drop both reject as a conflict with a task of another row, a drop both
\* reject for the working hours, a drop both accept and a drop of an id that
\* is not in the list, which both ignore
C29_Witness ==
    /\ \E taskId \in TaskIds, row \in Rows, startTime \in DropTimes :
           LET inline == handleTaskDropToTimeline(taskId, row, startTime)
               conflictResult ==
                   checkAllRowsConflict(tasks, taskId, row, startTime,
                                        findTaskById(tasks, taskId).duration)
           IN  /\ Exists(taskId)
               /\ Len(inline.alerts) = 1
               /\ IsConflictMessage(inline.alerts[1])
               /\ inline.alerts = dropTaskToTimeline(taskId, row, startTime).alerts
               /\ \E k \in 1..Len(conflictResult.conflictingTasks) :
                      conflictResult.conflictingTasks[k].conflictType # <<"same-row">>
    /\ \E taskId \in TaskIds, row \in Rows, startTime \in DropTimes :
           /\ Exists(taskId)
           /\ handleTaskDropToTimeline(taskId, row, startTime).alerts = <<OutOfHoursMessage>>
    /\ \E taskId \in TaskIds, row \in Rows, startTime \in DropTimes :
           /\ Exists(taskId)
           /\ handleTaskDropToTimeline(taskId, row, startTime).tasks # tasks
    /\ \E taskId \in CandidateIds, row \in Rows, startTime \in DropTimes :
           /\ ~Exists(taskId)
           /\ handleTaskDropToTimeline(taskId, row, startTime).tasks = tasks

----------------------------------------------------------------------------
\* checkTaskConflicts with the task at index i of the list as the candidate,
\* at its own row, start and duration
OwnCheck(i) ==
    checkTaskConflicts(tasks, tasks[i].id, tasks[i].position.row,
                       tasks[i].position.startTime, tasks[i].duration)

\* the overlap shape with which the check of task i reports task j
ShapeOf(i, j) ==
    LET conflictingTasks == OwnCheck(i).conflictingTasks
    IN  conflictingTasks[CHOOSE k \in 1..Len(conflictingTasks) :
                             conflictingTasks[k].task = tasks[j]].overlapType

\* the pairs of indices of placed tasks with different ids
PlacedPairs ==
    { pair \in Indices \X Indices :
        /\ tasks[pair[1]].position # null
        /\ tasks[pair[2]].position # null
        /\ tasks[pair[1]].id # tasks[pair[2]].id }

\* the check of each of two tasks reports the other, or neither does
ReportedBothWays ==
    \A pair \in PlacedPairs :
        Lists(OwnCheck(pair[1]), tasks[pair[2]])
            <=> Lists(OwnCheck(pair[2]), tasks[pair[1]])

\* the two intervals have different starts and different ends
NoSharedEndpoint(i, j) ==
    /\ StartMin(tasks[i]) # StartMin(tasks[j])
    /\ EndMin(tasks[i]) # EndMin(tasks[j])

(* C30 as stated, for the placed tasks A and B, of different ids, of a list  *)
(* whose slot map was built: A's check reports B iff B's check reports A,    *)
(* and when A's check reports B as a front overlap B's reports A as a back   *)
(* overlap, and when A's reports B as containing B's reports A as contained. *)
C30_OverlapShapesAreDual ==
    called = <<"createTimeSlotTaskMap">> =>
        /\ ReportedBothWays
        /\ \A pair \in PlacedPairs :
               Lists(OwnCheck(pair[1]), tasks[pair[2]]) =>
                   /\ ShapeOf(pair[1], pair[2]) = <<"front">>
                          => ShapeOf(pair[2], pair[1]) = <<"back">>
                   /\ ShapeOf(pair[1], pair[2]) = <<"containing">>
                          => ShapeOf(pair[2], pair[1]) = <<"contained">>

(* C30, amended, for the placed tasks A and B, of different ids, of a list   *)
(* whose slot map was built: A's check reports B iff B's check reports A;    *)
(* when A's reports B as containing, B's reports A as contained; and when    *)
(* the two intervals share neither start nor end, front in one direction is  *)
(* back in the other and contained in one direction is containing in the     *)
(* other.                                                                    *)
C30_OverlapShapesAreDualWithoutSharedEndpoint ==
    called = <<"createTimeSlotTaskMap">> =>
        /\ ReportedBothWays
        /\ \A pair \in PlacedPairs :
               Lists(OwnCheck(pair[1]), tasks[pair[2]]) =>
                   /\ ShapeOf(pair[1], pair[2]) = <<"containing">>
                          => ShapeOf(pair[2], pair[1]) = <<"contained">>
                   /\ NoSharedEndpoint(pair[1], pair[2]) =>
                          /\ ShapeOf(pair[1], pair[2]) = <<"front">>
                                 <=> ShapeOf(pair[2], pair[1]) = <<"back">>
                          /\ ShapeOf(pair[1], pair[2]) = <<"contained">>
                                 <=> ShapeOf(pair[2], pair[1]) = <<"containing">>

\* two placed tasks of different ids, 09:00 and 09:15, of two units each:
\* the first is reported the second as a front overlap, the second the
\* first as a back overlap
C30_Witness ==
    /\ called = <<"createTimeSlotTaskMap">>
    /\ Len(tasks) = 2
    /\ <<1, 2>> \in PlacedPairs
    /\ tasks[1].position.startTime = <<"0", "9", ":", "0", "0">>
    /\ tasks[2].position.startTime = <<"0", "9", ":", "1", "5">>
    /\ tasks[1].duration = 2 /\ tasks[2].duration = 2
    /\ Lists(OwnCheck(1), tasks[2]) /\ Lists(OwnCheck(2), tasks[1])
    /\ ShapeOf(1, 2) = <<"front">>
    /\ ShapeOf(2, 1) = <<"back">>

====
